---------------------------- MODULE Spec2Model ----------------------------
(***************************************************************************)
(* Goal Countdown Tracker: the time arithmetic of Countdown.tsx, the       *)
(* Countdown component's interval effect, and the GoalStorage repository   *)
(* over AsyncStorage.                                                      *)
(*                                                                         *)
(* The specifications of the module:                                       *)
(*   SpecTime      - CountdownUtils.isExpired and calculateTimeRemaining   *)
(*                   applied to bounded (deadlineDate, deadlineTime, now)  *)
(*   SpecStorage   - GoalStorage's operations against a store whose calls  *)
(*                   may fail                                              *)
(*   SpecCountdown - one Countdown instance: mount, interval ticks, clock, *)
(*                   deadline change, unmount                              *)
(*   SpecScreen    - a GoalItem with its Countdown and the HomeScreen's    *)
(*                   timers                                                *)
(*   SpecForm, SpecUI - the create and edit forms, the HomeScreen's list   *)
(*                   and the writes they start                             *)
(*   SpecCreate    - the create form, the clock advancing inside the       *)
(*                   handler                                               *)
(*   SpecList      - sortGoals, filterGoals, getProcessedGoals             *)
(*   SpecStats     - getStats, the clock advancing between its filters     *)
(*   SpecSession   - the screens' GoalStorage calls, one AsyncStorage call *)
(*                   at a time                                             *)
(*   SpecLegacy    - the storage object of storage.js                      *)
(*   SpecProgress  - GoalItem.calculateTargetProgress                      *)
(*   SpecPicker    - TimePicker's 12-hour / 24-hour conversion             *)
(*                                                                         *)
(* Conventions.  A JavaScript string is a sequence of one-character        *)
(* strings; the value undefined is the sequence Undefined.  A JavaScript   *)
(* number is a sequence of length at most one: <<>> is NaN, <<v>> is the   *)
(* integer v.  Instants are milliseconds of local time counted from the    *)
(* model's epoch (2024-02-25 00:00), not from 1970, so that they fit       *)
(* TLC's integers; the code only subtracts and compares                    *)
(* instants.  The local UTC offset is taken as fixed (no DST change inside *)
(* the modelled days).                                                     *)
(***************************************************************************)
EXTENDS Integers, Sequences, FiniteSets, TLC

VARIABLES
    \* ---- SpecTime: inputs and results of the pure functions
    tDate,          \* deadlineDate argument
    tTime,          \* deadlineTime argument
    tNow,           \* value of new Date().getTime() during the call
    tExpired,       \* result of CountdownUtils.isExpired: "none" | "true" | "false"
    tRemaining,     \* result of calculateTimeRemaining: <<>> (not called) or <<record>>
    \* ---- SpecStorage
    store,          \* AsyncStorage's value under GOALS_STORAGE_KEY
    last,           \* the last GoalStorage call: operation, arguments, failures, result
    \* ---- SpecCountdown
    cd,             \* the Countdown instance: props, React state, interval closure
    cdNow,          \* the clock read by new Date()
    onExpiredCalls, \* invocations of the onExpired prop since the effect last ran
    notificationSent, \* GoalItem's notificationSent ref, set by handleExpired
    \* ---- SpecScreen
    sNow,           \* the clock read by new Date() and by the timers
    timers,         \* the pending setInterval / setTimeout timers
    item,           \* one GoalItem with its child Countdown
    home,           \* the HomeScreen: mounted, focused, its interval ref
    \* ---- SpecUI
    nav,            \* the screen on top of the stack navigator
    homeGoals,      \* HomeScreen's goals state
    form,           \* the state of the create / edit screen
    pending,        \* GoalStorage writes that were started and have not finished
    sub,            \* the last press of the submit button and what it did
    \* ---- SpecList
    view,           \* the list HomeScreen sorts and filters, and the last call
    \* ---- SpecSession
    calls,          \* the screens' GoalStorage calls: awaiting AsyncStorage, and returned
    \* ---- SpecProgress
    prog,           \* a GoalItem's goal, the clock, and the progress computed
    \* ---- SpecPicker
    picker          \* one TimePicker: its prop, its state, the time it emitted

timeVars == <<tDate, tTime, tNow, tExpired, tRemaining>>
storageVars == <<store, last>>
countdownVars == <<cd, cdNow, onExpiredCalls, notificationSent>>
screenVars == <<sNow, timers, item, home>>
uiVars == <<nav, homeGoals, form, pending, sub, view>>
restVars == <<calls, prog, picker>>
vars == <<tDate, tTime, tNow, tExpired, tRemaining, store, last,
          cd, cdNow, onExpiredCalls, notificationSent,
          sNow, timers, item, home,
          nav, homeGoals, form, pending, sub, view, calls, prog, picker>>

-----------------------------------------------------------------------------
(* JavaScript values                                                       *)

Undefined == <<"undefined">>
IsUndefined(s) == s = Undefined

NaN == <<>>
Num(v) == <<v>>
IsNaN(x) == x = NaN
Val(x) == x[1]

Digits == <<"0", "1", "2", "3", "4", "5", "6", "7", "8", "9">>
IsDigit(c) == \E i \in 1..10 : Digits[i] = c
DigitVal(c) == (CHOOSE i \in 1..10 : Digits[i] = c) - 1

\* String.prototype.split(sep) for a one-character separator
RECURSIVE Split(_, _)
Split(s, sep) ==
    IF \E i \in 1..Len(s) : s[i] = sep
    THEN LET i == CHOOSE k \in 1..Len(s) :
                      s[k] = sep /\ \A j \in 1..(k - 1) : s[j] # sep
         IN  <<SubSeq(s, 1, i - 1)>> \o Split(SubSeq(s, i + 1, Len(s)), sep)
    ELSE <<s>>

RECURSIVE DecimalValue(_)
DecimalValue(tok) ==
    IF tok = <<>> THEN 0
    ELSE 10 * DecimalValue(SubSeq(tok, 1, Len(tok) - 1)) + DigitVal(tok[Len(tok)])

\* Number(string) over the alphabet digits, "-", ":", letters: the empty string
\* is 0, a run of digits its decimal value, a "-" followed by digits its
\* negation, anything else NaN
Number(tok) ==
    IF tok = <<>> THEN Num(0)
    ELSE IF \A i \in 1..Len(tok) : IsDigit(tok[i]) THEN Num(DecimalValue(tok))
    ELSE IF /\ tok[1] = "-"
            /\ Len(tok) > 1
            /\ \A i \in 2..Len(tok) : IsDigit(tok[i])
         THEN Num(0 - DecimalValue(SubSeq(tok, 2, Len(tok))))
    ELSE NaN

\* s.split(sep).map(Number)
SplitNumbers(s, sep) ==
    LET parts == Split(s, sep) IN [i \in 1..Len(parts) |-> Number(parts[i])]

\* array destructuring: a missing element is undefined, which every later
\* arithmetic use turns into NaN
Nth(arr, i) == IF i <= Len(arr) THEN arr[i] ELSE NaN

-----------------------------------------------------------------------------
(* new Date(year, monthIndex, day, hour, minute, 0, 0).getTime()           *)

\* ECMAScript MakeDay: days from 1970-01-01 to the first day of month mn
\* (0-based) of year ym, by the civil-calendar count
DayFromYearMonth(ym, mn) ==
    LET y   == IF mn <= 1 THEN ym - 1 ELSE ym
        era == y \div 400
        yoe == y - era * 400
        mp  == (mn + 10) % 12
        doy == (153 * mp + 2) \div 5
        doe == yoe * 365 + yoe \div 4 - yoe \div 100 + doy
    IN  era * 146097 + doe - 719468

\* the model's epoch: 2024-02-25 00:00 local time
EpochDayNumber == DayFromYearMonth(2024, 2 - 1) + (25 - 1)

\* the Date constructor with components; NaN if any component is NaN;
\* out-of-range components carry over (month 12 is January of the next year)
DateGetTime(year, monthIndex, day, hour, minute) ==
    IF IsNaN(year) \/ IsNaN(monthIndex) \/ IsNaN(day) \/ IsNaN(hour) \/ IsNaN(minute)
    THEN NaN
    ELSE LET yr  == IF Val(year) >= 0 /\ Val(year) <= 99
                    THEN 1900 + Val(year) ELSE Val(year)
             ym  == yr + (Val(monthIndex) \div 12)
             mn  == Val(monthIndex) % 12
             dayNumber == DayFromYearMonth(ym, mn) + (Val(day) - 1)
         IN  Num((dayNumber - EpochDayNumber) * (1000 * 60 * 60 * 24)
                 + Val(hour) * (1000 * 60 * 60)
                 + Val(minute) * (1000 * 60))

\* month - 1 on a JavaScript number
MinusOne(x) == IF IsNaN(x) THEN NaN ELSE Num(Val(x) - 1)

\* const [year, month, day] = d; const [hours, minutes] = t;
\* new Date(year, month - 1, day, hours, minutes, 0, 0).getTime()
DateOfParts(d, t) ==
    DateGetTime(Nth(d, 1), MinusOne(Nth(d, 2)), Nth(d, 3), Nth(t, 1), Nth(t, 2))

\* lines 46-50 / 239-241: parse both strings and build the deadline Date
deadlineGetTime(deadlineDate, deadlineTime) ==
    DateOfParts(SplitNumbers(deadlineDate, "-"), SplitNumbers(deadlineTime, ":"))

\* a <= b on JavaScript numbers: false when either is NaN
JsLe(a, b) == ~IsNaN(a) /\ ~IsNaN(b) /\ Val(a) <= Val(b)

\* a - b on JavaScript numbers
JsMinus(a, b) == IF IsNaN(a) \/ IsNaN(b) THEN NaN ELSE Num(Val(a) - Val(b))

\* Math.floor((x % m) / d) for an integer x; NaN stays NaN
FloorModDiv(x, m, d) ==
    IF IsNaN(x) THEN NaN
    ELSE LET r == IF Val(x) >= 0 THEN Val(x) % m ELSE 0 - ((0 - Val(x)) % m)
         IN  Num(r \div d)

\* Math.floor(x / d)
FloorDiv(x, d) == IF IsNaN(x) THEN NaN ELSE Num(Val(x) \div d)

ZeroRemaining ==
    [days |-> Num(0), hours |-> Num(0), minutes |-> Num(0),
     seconds |-> Num(0), total |-> Num(0)]

\* calculateTimeRemaining with the hours taken from the whole difference,
\* the day part not removed first
calculateTimeRemainingNoCarry(deadlineDate, deadlineTime, now) ==
    IF IsUndefined(deadlineDate) \/ IsUndefined(deadlineTime)
    THEN ZeroRemaining
    ELSE LET difference == JsMinus(deadlineGetTime(deadlineDate, deadlineTime), Num(now))
         IN  IF JsLe(difference, Num(0))
             THEN ZeroRemaining
             ELSE [days    |-> FloorDiv(difference, 1000 * 60 * 60 * 24),
                   hours   |-> FloorDiv(difference, 1000 * 60 * 60),
                   minutes |-> FloorModDiv(difference, 1000 * 60 * 60, 1000 * 60),
                   seconds |-> FloorModDiv(difference, 1000 * 60, 1000),
                   total   |-> difference]

\* the record calculateTimeRemaining returns for a difference in ms
RemainingOf(difference) ==
    IF JsLe(difference, Num(0))
    THEN ZeroRemaining
    ELSE [days    |-> FloorDiv(difference, 1000 * 60 * 60 * 24),
          hours   |-> FloorModDiv(difference, 1000 * 60 * 60 * 24, 1000 * 60 * 60),
          minutes |-> FloorModDiv(difference, 1000 * 60 * 60, 1000 * 60),
          seconds |-> FloorModDiv(difference, 1000 * 60, 1000),
          total   |-> difference]

\* Countdown.calculateTimeRemaining with the clock reading `now`
calculateTimeRemaining(deadlineDate, deadlineTime, now) ==
    IF IsUndefined(deadlineDate) \/ IsUndefined(deadlineTime)
    THEN ZeroRemaining                      \* .split throws: the catch branch
    ELSE RemainingOf(JsMinus(deadlineGetTime(deadlineDate, deadlineTime), Num(now)))

\* isExpired with < in place of <=
isExpiredStrict(deadlineDate, deadlineTime, now) ==
    IF IsUndefined(deadlineDate) \/ IsUndefined(deadlineTime)
    THEN TRUE
    ELSE LET deadline == deadlineGetTime(deadlineDate, deadlineTime)
         IN  ~IsNaN(deadline) /\ Val(deadline) < now

\* CountdownUtils.isExpired with the clock reading `now`
isExpired(deadlineDate, deadlineTime, now) ==
    IF IsUndefined(deadlineDate) \/ IsUndefined(deadlineTime)
    THEN TRUE                               \* .split throws: catch returns true
    ELSE JsLe(deadlineGetTime(deadlineDate, deadlineTime), Num(now))

-----------------------------------------------------------------------------
(* The Countdown component (Countdown.tsx)                                 *)
(*                                                                         *)
(* cd holds the props (deadlineDate, deadlineTime), the React state        *)
(* (isExpired, timeRemaining) and the interval the effect started.  The    *)
(* interval's callback is the updateCountdown of the render whose effect   *)
(* created it, so it reads that render's isExpired and props: the interval *)
(* record keeps them.  zeroTicks counts the runs of updateCountdown, since *)
(* the effect last ran, that computed total <= 0.                          *)

NoInterval ==
    [active |-> FALSE, isExpired |-> FALSE, deadlineDate |-> <<>>, deadlineTime |-> <<>>]

CdUnmounted ==
    [mounted |-> FALSE, deadlineDate |-> <<>>, deadlineTime |-> <<>>,
     isExpired |-> FALSE, timeRemaining |-> ZeroRemaining,
     interval |-> NoInterval, zeroTicks |-> 0]

\* updateCountdown once calculateTimeRemaining has returned remaining
UpdateWith(renderIsExpired, remaining) ==
    LET zero == JsLe(remaining.total, Num(0))
    IN  [remaining |-> remaining, zero |-> zero, fires |-> zero /\ ~renderIsExpired]

\* one run of updateCountdown in a render whose isExpired is renderIsExpired:
\* the record handed to setTimeRemaining, whether total <= 0 was computed, and
\* whether setIsExpired(true) and onExpired() are executed
updateCountdown(renderIsExpired, deadlineDate, deadlineTime, now) ==
    UpdateWith(renderIsExpired, calculateTimeRemaining(deadlineDate, deadlineTime, now))

-----------------------------------------------------------------------------
(* GoalItem with its child Countdown, and the HomeScreen's timers          *)
(* (GoalItem.tsx, Countdown.tsx, HomeScreen.tsx)                           *)
(*                                                                         *)
(* timers is the set of pending timers; each has an id (the value          *)
(* setInterval / setTimeout returned), its owner, its period, the instant  *)
(* it is next due, and what its callback closed over: the isExpired and    *)
(* the deadline of the render that created it.  A ref holds an id, or 0    *)
(* for null.  The operators below take and return a world                  *)
(* [timers, item, home], so that one handler can chain the re-renders and  *)
(* effects React runs before the next timer.                               *)

CdChildUnmounted == [mounted |-> FALSE, isExpired |-> FALSE, intervalRef |-> 0]

ItemUnmounted ==
    [mounted |-> FALSE, deadlineDate |-> <<>>, deadlineTime |-> <<>>,
     isExpired |-> FALSE, intervalRef |-> 0, hasCleanup |-> FALSE,
     notificationSent |-> FALSE, ran |-> FALSE, rerun |-> FALSE,
     cd |-> CdChildUnmounted]

HomeUnmounted == [mounted |-> FALSE, focused |-> FALSE, expiryCheckInterval |-> 0]

World(ts, it, hm) == [timers |-> ts, item |-> it, home |-> hm]

\* the id the next setInterval / setTimeout returns to a component.  The
\* runtime never hands out an id twice and a component only ever clears ids
\* it was given, so ids are kept per component and kind of timer: the
\* smallest one not in use there
FreshId(ts, owner, repeat) ==
    LET used == {t.id : t \in {u \in ts : u.owner = owner /\ u.repeat = repeat}}
    IN  CHOOSE n \in 1..(Cardinality(used) + 1) :
            n \notin used /\ \A m \in 1..(n - 1) : m \in used

\* clearInterval(id) by the component owner
ClearInterval(ts, owner, id) ==
    {t \in ts : ~(t.owner = owner /\ t.repeat /\ t.id = id)}

Timer(id, owner, period, now, closureIsExpired, deadlineDate, deadlineTime) ==
    [id |-> id, owner |-> owner, repeat |-> TRUE, period |-> period,
     due |-> now + period, isExpired |-> closureIsExpired,
     deadlineDate |-> deadlineDate, deadlineTime |-> deadlineTime]

\* what setTimeout(callback, delay) adds: the callback closes over nothing modelled
Timeout(id, owner, delay, now) ==
    [id |-> id, owner |-> owner, repeat |-> FALSE, period |-> delay,
     due |-> now + delay, isExpired |-> FALSE,
     deadlineDate |-> <<>>, deadlineTime |-> <<>>]

\* GoalItem.isAboutToExpire
isAboutToExpire(deadlineDate, deadlineTime, now) ==
    IF IsUndefined(deadlineDate) \/ IsUndefined(deadlineTime)
    THEN FALSE
    ELSE LET timeUntilExpiry ==
                 JsMinus(deadlineGetTime(deadlineDate, deadlineTime), Num(now))
         IN  JsLe(timeUntilExpiry, Num(60000))
               /\ ~IsNaN(timeUntilExpiry) /\ Val(timeUntilExpiry) > 0

\* ---- the child Countdown

\* what a run u of updateCountdown changes: setIsExpired(true) and
\* onExpired(), which is GoalItem.handleExpired, when it takes the expiry branch
cdUpdated(it, u) ==
    [it EXCEPT !.cd.isExpired = IF u.fires THEN TRUE ELSE @,
               !.notificationSent = @ \/ u.fires]

\* Countdown's effect in a render whose isExpired is renderIsExpired:
\* setIsExpired(false), updateCountdown(), setInterval(updateCountdown, 1000)
cdEffect(w, renderIsExpired, now) ==
    LET it == w.item
        id == FreshId(w.timers, "Countdown", TRUE)
    IN  World(w.timers \cup {Timer(id, "Countdown", 1000, now, renderIsExpired,
                                   it.deadlineDate, it.deadlineTime)},
              cdUpdated([it EXCEPT !.cd = [mounted |-> TRUE, isExpired |-> FALSE,
                                           intervalRef |-> id]],
                        updateCountdown(renderIsExpired, it.deadlineDate,
                                        it.deadlineTime, now)),
              w.home)

\* the cleanup of Countdown's effect: clearInterval(intervalRef.current)
cdCleanup(w) ==
    World(ClearInterval(w.timers, "Countdown", w.item.cd.intervalRef), w.item, w.home)

\* a Countdown is rendered for the first time: isExpired = useState(false)
cdMount(w, now) == cdEffect(w, FALSE, now)

\* the deadline props changed: cleanup, then the effect in the current render
cdRerun(w, now) == cdEffect(cdCleanup(w), w.item.cd.isExpired, now)

\* the Countdown is no longer rendered: both effects' cleanups run
cdUnmount(w) ==
    LET c == cdCleanup(cdCleanup(w)) IN
    World(c.timers, [c.item EXCEPT !.cd = CdChildUnmounted], c.home)

\* ---- the GoalItem

\* the body of GoalItem's effect in a render whose isExpired is
\* renderIsExpired: reset notificationSent, setIsExpired(initialExpired),
\* return early if the render's isExpired, else setInterval at 100 or 1000 ms;
\* ran and rerun record that the effect has run, and run again, since the mount
giEffectBody(w, renderIsExpired, now) ==
    LET it == w.item
        initialExpired == isExpired(it.deadlineDate, it.deadlineTime, now)
        updateInterval ==
            IF isAboutToExpire(it.deadlineDate, it.deadlineTime, now) THEN 100 ELSE 1000
        id == FreshId(w.timers, "GoalItem", TRUE)
    IN  World(IF renderIsExpired
              THEN w.timers
              ELSE w.timers \cup {Timer(id, "GoalItem", updateInterval, now,
                                        renderIsExpired,
                                        it.deadlineDate, it.deadlineTime)},
              [it EXCEPT !.isExpired = initialExpired,
                         !.notificationSent = FALSE,
                         !.rerun = it.ran, !.ran = TRUE,
                         !.intervalRef = IF renderIsExpired THEN @ ELSE id,
                         !.hasCleanup = ~renderIsExpired],
              w.home)

\* an effect whose cleanup clears nothing
giCleanupKeepsInterval(w) == w

\* the cleanup the last run of the effect returned, if it returned one
giCleanup(w) ==
    IF w.item.hasCleanup
    THEN World(ClearInterval(w.timers, "GoalItem", w.item.intervalRef),
               [w.item EXCEPT !.hasCleanup = FALSE], w.home)
    ELSE w

\* the child's part of a commit: {!isExpired && <Countdown/>}
cdCommit(w, now, deadlineChanged) ==
    LET r == w.item.isExpired
    IN  IF w.item.cd.mounted /\ r THEN cdUnmount(w)
        ELSE IF ~w.item.cd.mounted /\ ~r THEN cdMount(w, now)
        ELSE IF w.item.cd.mounted /\ deadlineChanged THEN cdRerun(w, now)
        ELSE w

\* GoalItem's part of a commit of the render whose isExpired is r
giEffects(w, r, now, depsChanged) ==
    IF depsChanged THEN giEffectBody(giCleanup(w), r, now) ELSE w

\* one commit of a GoalItem render whose isExpired state is the current one:
\* the Countdown is rendered iff !isExpired (mounted, unmounted, or its effect
\* re-run when the deadline changed), then GoalItem's effect runs again when
\* one of its dependencies changed; a child's effects run before the parent's
giCommit(w, now, deadlineChanged, depsChanged) ==
    giEffects(cdCommit(w, now, deadlineChanged), w.item.isExpired, now, depsChanged)

\* the commit w1 left an isExpired that is not the rendered one: commit again
giRecommit(renderIsExpired, w1, now) ==
    IF w1.item.isExpired # renderIsExpired
    THEN giCommit(w1, now, FALSE, TRUE)
    ELSE w1

\* the commits that follow a change, until the state is the rendered one: the
\* effect's setIsExpired(initialExpired) changes isExpired at most once for
\* one reading of the clock
giSettle(w, now, deadlineChanged) ==
    giRecommit(w.item.isExpired, giCommit(w, now, deadlineChanged, TRUE), now)

\* GoalItem is rendered for the first time for a goal
giMount(w, deadlineDate, deadlineTime, now) ==
    giSettle(World(w.timers,
                   [ItemUnmounted EXCEPT
                       !.mounted = TRUE,
                       !.deadlineDate = deadlineDate,
                       !.deadlineTime = deadlineTime,
                       !.isExpired = isExpired(deadlineDate, deadlineTime, now)],
                   w.home),
             now, FALSE)

\* GoalItem leaves the list: the Countdown's cleanups, the effect's cleanup,
\* and the unmount effect's clearInterval(intervalRef.current)
giUnmount(w) ==
    LET w1 == IF w.item.cd.mounted THEN cdUnmount(w) ELSE w
        w2 == giCleanup(w1)
    IN  World(ClearInterval(w2.timers, "GoalItem", w2.item.intervalRef),
              ItemUnmounted, w2.home)

\* checkExpiredState once CountdownUtils.isExpired has returned expired:
\* setIsExpired(expired) if it differs from the closure's isExpired
giChecked(w, t, now, expired) ==
    LET it1 == IF expired # t.isExpired
               THEN [w.item EXCEPT !.isExpired = expired]
               ELSE w.item
        w1  == World((w.timers \ {t}) \cup {[t EXCEPT !.due = now + t.period]},
                     it1, w.home)
    IN  IF it1.isExpired # w.item.isExpired THEN giSettle(w1, now, FALSE) ELSE w1

\* the GoalItem interval's callback with closure t: checkExpiredState (the
\* progress and time-remaining updates change nothing modelled here)
giTick(w, t, now) ==
    giChecked(w, t, now, isExpired(t.deadlineDate, t.deadlineTime, now))

\* the Countdown interval's callback with closure t: updateCountdown
cdTick(w, t, now) ==
    World((w.timers \ {t}) \cup {[t EXCEPT !.due = now + t.period]},
          cdUpdated(w.item,
                    updateCountdown(t.isExpired, t.deadlineDate, t.deadlineTime, now)),
          w.home)

-----------------------------------------------------------------------------
(* GoalStorage over AsyncStorage (storage.ts)                              *)
(*                                                                         *)
(* The value under GOALS_STORAGE_KEY is missing (getItem gives null), a    *)
(* string JSON.parse rejects ("corrupt"), or the JSON text of an array,    *)
(* kept as the array JSON.parse gives back (JSON text of anything but an   *)
(* array is never written by GoalStorage and is left out).  A failed       *)
(* setItem or removeItem leaves the value as it was.  A goal is a record   *)
(* of string fields; an optional field is absent or holds Undefined.  Each *)
(* operation                                                               *)
(* is an operator from the store and the failures of its AsyncStorage      *)
(* calls to [ret, list, threw, store, failed]: the value returned, the     *)
(* list returned (getAllGoals), whether an error reached the caller, the   *)
(* store afterwards, and the AsyncStorage calls that were made and failed. *)

MissingKey == [kind |-> "missing", goals |-> <<>>]
CorruptValue == [kind |-> "corrupt", goals |-> <<>>]

\* obj.field, undefined when the property is absent
Get(obj, f) == IF f \in DOMAIN obj THEN obj[f] ELSE Undefined

\* JSON.stringify of one object: properties holding undefined are omitted
StringifyGoal(g) == [f \in {k \in DOMAIN g : g[k] # Undefined} |-> g[f]]

\* JSON.stringify(goals), as the value JSON.parse would give back
JSONstringify(goals) ==
    [kind |-> "array", goals |-> [i \in 1..Len(goals) |-> StringifyGoal(goals[i])]]

\* { ...base, ...patch }
Spread(base, patch) ==
    [f \in DOMAIN base \cup DOMAIN patch |->
        IF f \in DOMAIN patch THEN patch[f] ELSE base[f]]

\* goals.findIndex(goal => goal.id === goalId), 1-based; -1 when absent
findIndex(goals, goalId) ==
    IF \E i \in 1..Len(goals) : Get(goals[i], "id") = goalId
    THEN CHOOSE i \in 1..Len(goals) :
            /\ Get(goals[i], "id") = goalId
            /\ \A j \in 1..(i - 1) : Get(goals[j], "id") # goalId
    ELSE 0 - 1

\* goals.filter(goal => goal.id !== goalId)
RECURSIVE filterOut(_, _)
filterOut(goals, goalId) ==
    IF goals = <<>> THEN <<>>
    ELSE IF Get(Head(goals), "id") = goalId THEN filterOut(Tail(goals), goalId)
    ELSE <<Head(goals)>> \o filterOut(Tail(goals), goalId)

Outcome(ret, list, threw, st, failed) ==
    [ret |-> ret, list |-> list, threw |-> threw, store |-> st, failed |-> failed]

\* getAllGoals whose catch is missing: a rejected getItem or a JSON.parse
\* error reaches the caller
getAllGoalsNoCatch(st, getFails) ==
    IF getFails THEN Outcome(FALSE, <<>>, TRUE, st, {"getItem"})
    ELSE IF st.kind = "missing" THEN Outcome(FALSE, <<>>, FALSE, st, {})
    ELSE IF st.kind = "corrupt" THEN Outcome(FALSE, <<>>, TRUE, st, {})
    ELSE Outcome(FALSE, st.goals, FALSE, st, {})

\* GoalStorage.getAllGoals
getAllGoals(st, getFails) ==
    IF getFails THEN Outcome(FALSE, <<>>, FALSE, st, {"getItem"})    \* catch: []
    ELSE IF st.kind = "missing" THEN Outcome(FALSE, <<>>, FALSE, st, {})
    ELSE IF st.kind = "corrupt" THEN Outcome(FALSE, <<>>, FALSE, st, {}) \* catch: []
    ELSE Outcome(FALSE, st.goals, FALSE, st, {})

\* GoalStorage.saveGoal
saveGoal(st, goal, getFails, setFails) ==
    LET existing == getAllGoals(st, getFails) IN
    IF existing.threw THEN Outcome(FALSE, <<>>, FALSE, st, existing.failed)
    ELSE LET updatedGoals == Append(existing.list, goal) IN
         IF setFails
         THEN Outcome(FALSE, <<>>, FALSE, st, existing.failed \cup {"setItem"})
         ELSE Outcome(TRUE, <<>>, FALSE, JSONstringify(updatedGoals), existing.failed)

\* updateGoal that replaces the record by the patch instead of merging
updateGoalNoSpread(st, goalId, updatedGoal, getFails, setFails) ==
    LET got == getAllGoals(st, getFails)
        goalIndex == findIndex(got.list, goalId)
    IN
    IF got.threw THEN Outcome(FALSE, <<>>, FALSE, st, got.failed)
    ELSE IF goalIndex = 0 - 1 THEN Outcome(FALSE, <<>>, FALSE, st, got.failed)
    ELSE LET goals == [got.list EXCEPT ![goalIndex] = updatedGoal] IN
         IF setFails
         THEN Outcome(FALSE, <<>>, FALSE, st, got.failed \cup {"setItem"})
         ELSE Outcome(TRUE, <<>>, FALSE, JSONstringify(goals), got.failed)

\* updateGoal without the goalIndex === -1 return: an absent id is appended
updateGoalNoAbsentCheck(st, goalId, updatedGoal, getFails, setFails) ==
    LET got == getAllGoals(st, getFails)
        goalIndex == findIndex(got.list, goalId)
    IN
    IF got.threw THEN Outcome(FALSE, <<>>, FALSE, st, got.failed)
    ELSE LET goals == IF goalIndex = 0 - 1
                      THEN Append(got.list, updatedGoal)
                      ELSE [got.list EXCEPT
                              ![goalIndex] = Spread(got.list[goalIndex], updatedGoal)]
         IN
         IF setFails
         THEN Outcome(FALSE, <<>>, FALSE, st, got.failed \cup {"setItem"})
         ELSE Outcome(TRUE, <<>>, FALSE, JSONstringify(goals), got.failed)

\* GoalStorage.updateGoal
updateGoal(st, goalId, updatedGoal, getFails, setFails) ==
    LET got == getAllGoals(st, getFails)
        goalIndex == findIndex(got.list, goalId)
    IN
    IF got.threw THEN Outcome(FALSE, <<>>, FALSE, st, got.failed)
    ELSE IF goalIndex = 0 - 1 THEN Outcome(FALSE, <<>>, FALSE, st, got.failed)
    ELSE LET goals == [got.list EXCEPT
                         ![goalIndex] = Spread(got.list[goalIndex], updatedGoal)]
         IN
         IF setFails
         THEN Outcome(FALSE, <<>>, FALSE, st, got.failed \cup {"setItem"})
         ELSE Outcome(TRUE, <<>>, FALSE, JSONstringify(goals), got.failed)

\* GoalStorage.deleteGoal
deleteGoal(st, goalId, getFails, setFails) ==
    LET got == getAllGoals(st, getFails) IN
    IF got.threw THEN Outcome(FALSE, <<>>, FALSE, st, got.failed)
    ELSE LET filteredGoals == filterOut(got.list, goalId) IN
         IF setFails
         THEN Outcome(FALSE, <<>>, FALSE, st, got.failed \cup {"setItem"})
         ELSE Outcome(TRUE, <<>>, FALSE, JSONstringify(filteredGoals), got.failed)

\* GoalStorage.clearAllGoals
clearAllGoals(st, removeFails) ==
    IF removeFails THEN Outcome(FALSE, <<>>, FALSE, st, {"removeItem"})
    ELSE Outcome(TRUE, <<>>, FALSE, MissingKey, {})

-----------------------------------------------------------------------------
(* SpecTime: the pure functions on bounded inputs                          *)

\* n.toString().padStart(2, '0') for 0 <= n <= 99
Pad2(n) == <<Digits[(n \div 10) + 1], Digits[(n % 10) + 1]>>

\* a four-digit year's toString()
Year4(y) ==
    <<Digits[(y \div 1000) + 1], Digits[((y \div 100) % 10) + 1]>> \o Pad2(y % 100)

\* DatePicker's formattedDate and TimePicker's "HH:MM"
formattedDate(y, m, d) == Year4(y) \o <<"-">> \o Pad2(m) \o <<"-">> \o Pad2(d)
formattedTime(h, mi) == Pad2(h) \o <<":">> \o Pad2(mi)

\* days of March 2024 among the deadlines (besides 2024-02-28 and the leap day)
MaxMarchDay == 1

ValidDates ==
    {formattedDate(2024, 2, 28), formattedDate(2024, 2, 29)}
        \cup {formattedDate(2024, 3, d) : d \in 1..MaxMarchDay}

ValidTimes == {formattedTime(0, 0), formattedTime(12, 30), formattedTime(23, 59)}

\* strings that do not parse to an instant: a non-numeric day, a missing day,
\* the empty string, undefined
MalformedDates ==
    { <<"2", "0", "2", "4", "-", "0", "2", "-", "x", "x">>,
      <<"2", "0", "2", "4", "-", "0", "2">>,
      <<>>,
      Undefined }

\* a non-numeric hour, a missing minute, undefined
MalformedTimes ==
    { <<"x", "x", ":", "0", "0">>, <<"1", "2">>, Undefined }

\* the clock, relative to each deadline: 1d 1h 1m 1s 1ms before, a minute
\* before, a second before, 999 ms and 1 ms before, at it, and after it
NowOffsets == {0 - 90061001, 0 - 60000, 0 - 1000, 0 - 999, 0 - 1, 0, 1, 1000}

NowValues ==
    { Val(deadlineGetTime(d, t)) + o : d \in ValidDates, t \in ValidTimes, o \in NowOffsets }

NoGoal == [id |-> Undefined]

NoCall ==
    [op |-> "none", goal |-> NoGoal, id |-> Undefined, patch |-> NoGoal,
     before |-> MissingKey, ret |-> FALSE, list |-> <<>>, threw |-> FALSE,
     failed |-> {}]

\* the other specifications' variables, at rest
StorageIdle ==
    /\ store = MissingKey
    /\ last = NoCall

CountdownIdle ==
    /\ cd = CdUnmounted
    /\ cdNow = 0
    /\ onExpiredCalls = 0
    /\ notificationSent = FALSE

-----------------------------------------------------------------------------
(* The create and edit forms (CreateGoalScreen.tsx, EditGoalScreen.tsx)    *)

\* the form of a screen that is not open
FormClosed ==
    [title |-> <<>>, description |-> <<>>, deadlineDate |-> <<>>,
     deadlineTime |-> <<>>, isLoading |-> FALSE, goal |-> NoGoal,
     updatedGoalData |-> NoGoal, result |-> "none"]

NoView ==
    [goals |-> <<>>, sortBy |-> "deadline", filterBy |-> "all", now |-> 0,
     op |-> "none", input |-> <<>>, out |-> <<>>,
     stats |-> [total |-> 0, active |-> 0, expired |-> 0]]

\* no GoalStorage call was started from a screen
NoCalls ==
    [queue |-> <<>>, started |-> 0, born |-> {}, removed |-> {},
     last |-> [op |-> "none", id |-> <<"undefined">>, failed |-> {}, ret |-> FALSE,
               alert |-> "none", overlapped |-> {}]]

\* no progress was computed
NoProgress ==
    [deadlineDate |-> <<>>, deadlineTime |-> <<>>, createdAt |-> <<>>, now |-> 0,
     isExpired |-> FALSE, called |-> FALSE, progress |-> <<>>,
     currentProgress |-> <<>>]

\* a TimePicker that is not rendered
NoPicker ==
    [selectedTime |-> <<>>, isVisible |-> FALSE,
     hour |-> <<12>>, minute |-> <<0>>, isAM |-> TRUE,
     loaded |-> <<>>, touched |-> FALSE, confirmed |-> <<>>, emitted |-> <<>>]

NoSubmission ==
    [screen |-> "none", title |-> <<>>, deadlineDate |-> <<>>,
     deadlineTime |-> <<>>, now |-> 0, alert |-> <<>>, wrote |-> FALSE]

\* String.prototype.trim, on the space character
RECURSIVE trimStart(_)
trimStart(s) == IF s # <<>> /\ Head(s) = " " THEN trimStart(Tail(s)) ELSE s

RECURSIVE trimEnd(_)
trimEnd(s) ==
    IF s # <<>> /\ s[Len(s)] = " " THEN trimEnd(SubSeq(s, 1, Len(s) - 1)) ELSE s

trim(s) == trimEnd(trimStart(s))

\* a < b on JavaScript numbers: false when either is NaN
JsLt(a, b) == ~IsNaN(a) /\ ~IsNaN(b) /\ Val(a) < Val(b)

\* today.setHours(0, 0, 0, 0) on new Date(): the start of the local day
startOfDay(now) == Num(now - (now % (1000 * 60 * 60 * 24)))

\* validateForm whose time check lets a deadline equal to now pass
validateFormAcceptsNow(title, deadlineDate, deadlineTime, now) ==
    LET t == trim(title)
        d == SplitNumbers(deadlineDate, "-")
        selectedDate ==
            DateGetTime(Nth(d, 1), MinusOne(Nth(d, 2)), Nth(d, 3), Num(0), Num(0))
    IN  (IF t = <<>> THEN <<"Title is required">>
         ELSE IF Len(t) < 3 THEN <<"Title must be at least 3 characters long">>
         ELSE <<>>)
        \o (IF deadlineDate = <<>> THEN <<"Deadline date is required">>
            ELSE IF JsLt(selectedDate, startOfDay(now))
            THEN <<"Deadline date cannot be in the past">>
            ELSE <<>>)
        \o (IF deadlineTime = <<>> THEN <<"Deadline time is required">>
            ELSE IF deadlineDate # <<>>
                    /\ JsLt(deadlineGetTime(deadlineDate, deadlineTime), Num(now))
            THEN <<"Deadline time cannot be in the past">>
            ELSE <<>>)

\* validateForm: the errors array, in the order the checks push to it
validateForm(title, deadlineDate, deadlineTime, now) ==
    LET t == trim(title)
        d == SplitNumbers(deadlineDate, "-")
        selectedDate ==
            DateGetTime(Nth(d, 1), MinusOne(Nth(d, 2)), Nth(d, 3), Num(0), Num(0))
    IN  (IF t = <<>> THEN <<"Title is required">>
         ELSE IF Len(t) < 3 THEN <<"Title must be at least 3 characters long">>
         ELSE <<>>)
        \o (IF deadlineDate = <<>> THEN <<"Deadline date is required">>
            ELSE IF JsLt(selectedDate, startOfDay(now))
            THEN <<"Deadline date cannot be in the past">>
            ELSE <<>>)
        \o (IF deadlineTime = <<>> THEN <<"Deadline time is required">>
            ELSE IF deadlineDate # <<>>
                    /\ JsLe(deadlineGetTime(deadlineDate, deadlineTime), Num(now))
            THEN <<"Deadline time cannot be in the past">>
            ELSE <<>>)

\* errors.join("\n"): the messages with a line break between two of them
RECURSIVE join(_, _)
join(errors, sep) ==
    IF Len(errors) <= 1 THEN errors
    ELSE <<Head(errors), sep>> \o join(Tail(errors), sep)

Pad3(n) == <<Digits[(n \div 100) + 1]>> \o Pad2(n % 100)

\* new Date().toISOString(), for the instants from the epoch day to the end
\* of March 2024 (local time is UTC)
toISOString(now) ==
    LET dayMs == 1000 * 60 * 60 * 24
        n     == now \div dayMs
        r     == now % dayMs
        date  == IF 25 + n <= 29 THEN formattedDate(2024, 2, 25 + n)
                 ELSE formattedDate(2024, 3, 25 + n - 29)
    IN  date \o <<"T">> \o formattedTime(r \div 3600000, (r \div 60000) % 60)
             \o <<":">> \o Pad2((r \div 1000) % 60)
             \o <<".">> \o Pad3(r % 1000) \o <<"Z">>

\* description.trim() || undefined
descriptionOrUndefined(description) ==
    IF trim(description) = <<>> THEN Undefined ELSE trim(description)

\* goal.description || ''
descriptionOrEmpty(goal) ==
    IF Get(goal, "description") = Undefined THEN <<>> ELSE goal.description


-----------------------------------------------------------------------------
(* States in which a part of the program has not started                  *)

ScreenIdle ==
    /\ sNow = 0
    /\ timers = {}
    /\ item = ItemUnmounted
    /\ home = HomeUnmounted

RestIdle ==
    /\ calls = NoCalls
    /\ prog = NoProgress
    /\ picker = NoPicker

UiOnlyIdle ==
    /\ nav = "Home"
    /\ homeGoals = <<>>
    /\ form = FormClosed
    /\ pending = {}
    /\ sub = NoSubmission
    /\ view = NoView

UiIdle ==
    /\ UiOnlyIdle
    /\ RestIdle

TimeIdle ==
    /\ tDate = <<>>
    /\ tTime = <<>>
    /\ tNow = 0
    /\ tExpired = "none"
    /\ tRemaining = <<>>

InitTime ==
    /\ tDate \in ValidDates \cup MalformedDates
    /\ tTime \in ValidTimes \cup MalformedTimes
    /\ tNow \in NowValues
    /\ tExpired = "none"
    /\ tRemaining = <<>>
    /\ StorageIdle
    /\ CountdownIdle
    /\ ScreenIdle
    /\ UiIdle

\* a caller evaluates CountdownUtils.isExpired(deadlineDate, deadlineTime)
CallIsExpired ==
    /\ tExpired' = IF isExpired(tDate, tTime, tNow) THEN "true" ELSE "false"
    /\ UNCHANGED <<tDate, tTime, tNow, tRemaining>>
    /\ UNCHANGED <<storageVars, countdownVars, screenVars, uiVars, restVars>>

\* a caller evaluates calculateTimeRemaining()
CallCalculateTimeRemaining ==
    /\ tRemaining' = <<calculateTimeRemaining(tDate, tTime, tNow)>>
    /\ UNCHANGED <<tDate, tTime, tNow, tExpired>>
    /\ UNCHANGED <<storageVars, countdownVars, screenVars, uiVars, restVars>>

NextTime == CallIsExpired \/ CallCalculateTimeRemaining

SpecTime == InitTime /\ [][NextTime]_vars

\* the inputs parse to an instant
ParsesToInstant(deadlineDate, deadlineTime) ==
    /\ ~IsUndefined(deadlineDate)
    /\ ~IsUndefined(deadlineTime)
    /\ ~IsNaN(deadlineGetTime(deadlineDate, deadlineTime))

Instant(deadlineDate, deadlineTime) == Val(deadlineGetTime(deadlineDate, deadlineTime))

\* C2: isExpired returns true for every input that fails to parse to a valid
\* instant (the claim as stated; the code returns false when the parse yields NaN)
C2_UnparseableIsExpired ==
    (tExpired # "none" /\ ~ParsesToInstant(tDate, tTime)) => tExpired = "true"

\* C2's failing case is reached: a non-numeric day, isExpired evaluated
C2_Reached ==
    /\ tExpired = "false"
    /\ ~IsUndefined(tDate) /\ ~IsUndefined(tTime)
    /\ IsNaN(deadlineGetTime(tDate, tTime))

\* C4: for a valid deadline strictly after now, calculateTimeRemaining returns
\* total = deadline - now > 0, with days, hours, minutes, seconds the successive
\* quotients of total by 86400000, 3600000, 60000, 1000 (each on the remainder
\* of the larger unit), and their sum in ms is <= total and within 1000 ms of it
C4_FutureDecomposition ==
    (/\ tRemaining # <<>>
     /\ ParsesToInstant(tDate, tTime)
     /\ Instant(tDate, tTime) > tNow)
    => LET r     == tRemaining[1]
           total == Instant(tDate, tTime) - tNow
           sum   == Val(r.days) * 86400000 + Val(r.hours) * 3600000
                      + Val(r.minutes) * 60000 + Val(r.seconds) * 1000
       IN  /\ r.total = Num(total)
           /\ total > 0
           /\ r.days = Num(total \div 86400000)
           /\ r.hours = Num((total % 86400000) \div 3600000)
           /\ r.minutes = Num((total % 3600000) \div 60000)
           /\ r.seconds = Num((total % 60000) \div 1000)
           /\ sum <= total
           /\ total - sum < 1000

\* C4's case: a deadline more than a day, an hour, a minute and a second away,
\* with a sub-second remainder, decomposed
C4_Witness ==
    /\ tRemaining # <<>>
    /\ ParsesToInstant(tDate, tTime)
    /\ Instant(tDate, tTime) - tNow = 90061001
    /\ tRemaining[1].days = Num(1)
    /\ tRemaining[1].hours = Num(1)
    /\ tRemaining[1].minutes = Num(1)
    /\ tRemaining[1].seconds = Num(1)

\* C5: for a valid deadline at or before now (the boundary included),
\* isExpired returns true and calculateTimeRemaining returns the all-zero
\* record with total = 0
C5_PastIsExpiredAndZero ==
    (ParsesToInstant(tDate, tTime) /\ Instant(tDate, tTime) <= tNow)
    => /\ (tExpired # "none" => tExpired = "true")
       /\ (tRemaining # <<>> => tRemaining[1] = ZeroRemaining)

\* C5's case: the boundary deadline = now, both functions evaluated
C5_Witness ==
    /\ ParsesToInstant(tDate, tTime)
    /\ Instant(tDate, tTime) = tNow
    /\ tExpired = "true"
    /\ tRemaining = <<ZeroRemaining>>

-----------------------------------------------------------------------------
(* SpecStorage: GoalStorage's operations, each AsyncStorage call free to   *)
(* fail                                                                    *)

\* most goals the collection holds
MaxGoals == 3

\* a goal as CreateGoalScreen builds it: description is the trimmed text or
\* undefined
NewGoal(id, title, description) ==
    [id |-> id, title |-> title, description |-> description,
     deadlineDate |-> formattedDate(2024, 3, 1),
     deadlineTime |-> formattedTime(12, 30),
     createdAt |-> <<"t0">>]

\* two goals share an id: generateId does not exclude a collision and
\* saveGoal does not check
GoalInputs ==
    { NewGoal(<<"g1">>, <<"A">>, Undefined),
      NewGoal(<<"g1">>, <<"B">>, <<"d">>),
      NewGoal(<<"g2">>, <<"A">>, <<"d">>) }

\* no goal has the id g3
GoalIds == {<<"g1">>, <<"g2">>, <<"g3">>}

\* a title-only patch, and the patch EditGoalScreen sends
Patches ==
    { [title |-> <<"X">>],
      [title |-> <<"X">>, description |-> Undefined,
       deadlineDate |-> formattedDate(2024, 2, 29),
       deadlineTime |-> formattedTime(0, 0)] }

\* what an undisturbed getAllGoals reads from a store value
Persisted(st) == IF st.kind = "array" THEN st.goals ELSE <<>>

\* the key is absent on a fresh install; the value may also be text that
\* JSON.parse rejects (written by something else than JSON.stringify)
InitStorage ==
    /\ store \in {MissingKey, CorruptValue}
    /\ last = NoCall
    /\ TimeIdle
    /\ CountdownIdle
    /\ ScreenIdle
    /\ UiIdle

Called(op, goal, id, patch, o) ==
    [op |-> op, goal |-> goal, id |-> id, patch |-> patch, before |-> store,
     ret |-> o.ret, list |-> o.list, threw |-> o.threw, failed |-> o.failed]

SaveGoal ==
    \E goal \in GoalInputs, getFails \in BOOLEAN, setFails \in BOOLEAN :
        /\ Len(Persisted(store)) < MaxGoals
        /\ LET o == saveGoal(store, goal, getFails, setFails) IN
            /\ store' = o.store
            /\ last' = Called("saveGoal", goal, Undefined, NoGoal, o)
        /\ UNCHANGED <<timeVars, countdownVars, screenVars, uiVars, restVars>>

GetAllGoals ==
    \E getFails \in BOOLEAN :
        /\ LET o == getAllGoals(store, getFails) IN
            /\ store' = o.store
            /\ last' = Called("getAllGoals", NoGoal, Undefined, NoGoal, o)
        /\ UNCHANGED <<timeVars, countdownVars, screenVars, uiVars, restVars>>

UpdateGoal ==
    \E goalId \in GoalIds, updatedGoal \in Patches,
       getFails \in BOOLEAN, setFails \in BOOLEAN :
        /\ LET o == updateGoal(store, goalId, updatedGoal, getFails, setFails) IN
            /\ store' = o.store
            /\ last' = Called("updateGoal", NoGoal, goalId, updatedGoal, o)
        /\ UNCHANGED <<timeVars, countdownVars, screenVars, uiVars, restVars>>

DeleteGoal ==
    \E goalId \in GoalIds, getFails \in BOOLEAN, setFails \in BOOLEAN :
        /\ LET o == deleteGoal(store, goalId, getFails, setFails) IN
            /\ store' = o.store
            /\ last' = Called("deleteGoal", NoGoal, goalId, NoGoal, o)
        /\ UNCHANGED <<timeVars, countdownVars, screenVars, uiVars, restVars>>

ClearAllGoals ==
    \E removeFails \in BOOLEAN :
        /\ LET o == clearAllGoals(store, removeFails) IN
            /\ store' = o.store
            /\ last' = Called("clearAllGoals", NoGoal, Undefined, NoGoal, o)
        /\ UNCHANGED <<timeVars, countdownVars, screenVars, uiVars, restVars>>

NextStorage == SaveGoal \/ GetAllGoals \/ UpdateGoal \/ DeleteGoal \/ ClearAllGoals

SpecStorage == InitStorage /\ [][NextStorage]_vars

\* deep equality of two goal objects: an absent property equals undefined
DeepEqual(a, b) == \A f \in DOMAIN a \cup DOMAIN b : Get(a, f) = Get(b, f)

IdsOf(goals) == {Get(goals[i], "id") : i \in 1..Len(goals)}

\* C3: when an AsyncStorage call of saveGoal, updateGoal, deleteGoal or
\* clearAllGoals failed, the operation returns false (getAllGoals: the empty
\* list) and no error reaches the caller (the claim as stated; saveGoal and
\* deleteGoal return true after a failed getItem)
C3_FailSoft ==
    last.failed # {}
    => /\ ~last.threw
       /\ last.op \in {"saveGoal", "updateGoal", "deleteGoal", "clearAllGoals"}
            => last.ret = FALSE
       /\ last.op = "getAllGoals" => last.list = <<>>

\* C6: after saveGoal(goal) returns true the collection is the previously
\* persisted one with goal appended, deep-equal to the goal passed in (the
\* claim as stated; after a failed getItem the earlier records are gone)
C6_SaveAppends ==
    (last.op = "saveGoal" /\ last.ret)
    => LET old == Persisted(last.before)
           new == Persisted(store)
       IN  /\ store.kind = "array"
           /\ Len(new) = Len(old) + 1
           /\ \A i \in 1..Len(old) : new[i] = old[i]
           /\ DeepEqual(new[Len(new)], last.goal)

\* C7: after updateGoal(id, patch) returns true, the first record with that
\* id is the old record with exactly the patch fields overridden, every other
\* record is unchanged, and the length and order are kept
C7_UpdateMerges ==
    (last.op = "updateGoal" /\ last.ret)
    => LET old == Persisted(last.before)
           new == Persisted(store)
           i   == findIndex(old, last.id)
       IN  /\ last.before.kind = "array"
           /\ i # 0 - 1
           /\ store.kind = "array"
           /\ Len(new) = Len(old)
           /\ \A j \in 1..Len(old) : j # i => new[j] = old[j]
           /\ \A f \in DOMAIN last.patch : Get(new[i], f) = last.patch[f]
           /\ \A f \in (DOMAIN old[i] \cup DOMAIN new[i]) \ DOMAIN last.patch :
                  Get(new[i], f) = Get(old[i], f)

\* C7's case: a title-only patch applied to the second of three records
C7_Witness ==
    /\ last.op = "updateGoal"
    /\ last.ret
    /\ last.patch = [title |-> <<"X">>]
    /\ Len(Persisted(last.before)) = 3
    /\ findIndex(Persisted(last.before), last.id) = 2
    /\ Persisted(last.before)[2].title # <<"X">>
    /\ Persisted(store)[2].title = <<"X">>

\* C8: updateGoal with an id that is not in the persisted collection returns
\* false, raises no error and leaves the persisted value unchanged
C8_UpdateAbsentIsNoOp ==
    (last.op = "updateGoal" /\ last.id \notin IdsOf(Persisted(last.before)))
    => /\ last.ret = FALSE
       /\ ~last.threw
       /\ store = last.before

\* C8's case: updateGoal on a non-empty collection that lacks the id, every
\* AsyncStorage call succeeding
C8_Witness ==
    /\ last.op = "updateGoal"
    /\ last.failed = {}
    /\ Len(Persisted(last.before)) >= 2
    /\ last.id \notin IdsOf(Persisted(last.before))
    /\ last.ret = FALSE

\* C9: deleteGoal(id) returns true whether or not id is present (when its
\* write went through); afterwards no record has that id, every other record
\* is there in its original order, and a second deleteGoal(id) changes
\* nothing (the claim as stated; after a failed getItem the other records
\* are gone too)
C9_DeleteRemovesOnlyId ==
    last.op = "deleteGoal"
    => /\ ("setItem" \notin last.failed) => last.ret
       /\ last.ret
            => /\ store.kind = "array"
               /\ last.id \notin IdsOf(Persisted(store))
               /\ Persisted(store) = filterOut(Persisted(last.before), last.id)
               /\ deleteGoal(store, last.id, FALSE, FALSE).store = store

\* C10: getAllGoals returns the empty list, raising nothing, when the key is
\* missing and when the stored string is not parseable JSON
C10_GetAllEmptyOnMissingOrCorrupt ==
    (last.op = "getAllGoals" /\ last.before.kind \in {"missing", "corrupt"})
    => /\ last.list = <<>>
       /\ ~last.threw

\* C10's case: getAllGoals on a stored string that does not parse, getItem
\* itself succeeding
C10_Witness ==
    /\ last.op = "getAllGoals"
    /\ last.before = CorruptValue
    /\ last.failed = {}
    /\ last.list = <<>>

\* C24: saveGoal and deleteGoal leave every record they do not target in the
\* persisted collection, also when an AsyncStorage call of theirs failed (the
\* claim as stated; after a failed getItem the collection written is built
\* from the empty list)
C24_UntargetedRecordsSurvive ==
    last.op \in {"saveGoal", "deleteGoal"}
    => \A i \in 1..Len(Persisted(last.before)) :
          \/ last.op = "deleteGoal" /\ Get(Persisted(last.before)[i], "id") = last.id
          \/ \E j \in 1..Len(Persisted(store)) :
                 Persisted(store)[j] = Persisted(last.before)[i]

-----------------------------------------------------------------------------
(* SpecCountdown: one Countdown under a parent GoalItem whose handleExpired *)
(* is the onExpired prop                                                    *)

\* clock steps of 500 ms the model takes
MaxClockSteps == 6

\* runs of updateCountdown computing total <= 0 that are followed per effect
MaxZeroTicks == 3

\* deadlines: the epoch itself (past from the start), one minute after it
\* (passes while the clock runs), a day later (stays ahead), and one whose
\* day is not a number
CdDeadlines ==
    { <<formattedDate(2024, 2, 25), formattedTime(0, 0)>>,
      <<formattedDate(2024, 2, 25), formattedTime(0, 1)>>,
      <<formattedDate(2024, 2, 26), formattedTime(0, 1)>>,
      <<(<<"2", "0", "2", "4", "-", "0", "2", "-", "x", "x">>), formattedTime(0, 1)>> }

\* the clock starts one second before the second deadline
InitCountdown ==
    /\ cd = CdUnmounted
    /\ cdNow = 59 * 1000
    /\ onExpiredCalls = 0
    /\ notificationSent = FALSE
    /\ TimeIdle
    /\ StorageIdle
    /\ ScreenIdle
    /\ UiIdle

\* the effect of the render with props (deadlineDate, deadlineTime) and state
\* isExpired = renderIsExpired: setIsExpired(false), updateCountdown(),
\* setInterval(updateCountdown, 1000).  handleExpired sets notificationSent.
RunEffect(renderIsExpired, deadlineDate, deadlineTime) ==
    LET u == updateCountdown(renderIsExpired, deadlineDate, deadlineTime, cdNow) IN
    /\ cd' = [mounted |-> TRUE,
              deadlineDate |-> deadlineDate,
              deadlineTime |-> deadlineTime,
              isExpired |-> u.fires,
              timeRemaining |-> u.remaining,
              interval |-> [active |-> TRUE, isExpired |-> renderIsExpired,
                            deadlineDate |-> deadlineDate,
                            deadlineTime |-> deadlineTime],
              zeroTicks |-> IF u.zero THEN 1 ELSE 0]
    /\ onExpiredCalls' = IF u.fires THEN 1 ELSE 0

\* GoalItem renders a Countdown: useState(false), then the effect
Mount ==
    \E dl \in CdDeadlines :
        /\ ~cd.mounted
        /\ RunEffect(FALSE, dl[1], dl[2])
        /\ notificationSent' = (updateCountdown(FALSE, dl[1], dl[2], cdNow).fires)
        /\ UNCHANGED <<cdNow, timeVars, storageVars, screenVars, uiVars, restVars>>

\* the interval fires: the updateCountdown captured when the effect ran
IntervalTick ==
    /\ cd.mounted
    /\ cd.interval.active
    /\ cd.zeroTicks < MaxZeroTicks
    /\ LET u == updateCountdown(cd.interval.isExpired, cd.interval.deadlineDate,
                                cd.interval.deadlineTime, cdNow)
       IN  /\ cd' = [cd EXCEPT
                        !.timeRemaining = u.remaining,
                        !.isExpired = IF u.fires THEN TRUE ELSE @,
                        !.zeroTicks = IF u.zero THEN @ + 1 ELSE @]
           /\ onExpiredCalls' = IF u.fires THEN onExpiredCalls + 1 ELSE onExpiredCalls
           /\ notificationSent' = (notificationSent \/ u.fires)
    /\ UNCHANGED <<cdNow, timeVars, storageVars, screenVars, uiVars, restVars>>

\* the parent passes another deadline: the old effect's cleanup clears the
\* interval, the effect runs again in a render that still has the old
\* isExpired; GoalItem's own effect then resets notificationSent
ChangeDeadline ==
    \E dl \in CdDeadlines :
        /\ cd.mounted
        /\ <<cd.deadlineDate, cd.deadlineTime>> # dl
        /\ RunEffect(cd.isExpired, dl[1], dl[2])
        /\ notificationSent' = FALSE
        /\ UNCHANGED <<cdNow, timeVars, storageVars, screenVars, uiVars, restVars>>

\* the parent stops rendering the Countdown: both cleanups clearInterval
Unmount ==
    /\ cd.mounted
    /\ cd' = CdUnmounted
    /\ UNCHANGED <<cdNow, onExpiredCalls, notificationSent, timeVars, storageVars, screenVars, uiVars, restVars>>

\* time passes
AdvanceClock ==
    /\ cdNow < 59 * 1000 + MaxClockSteps * 500
    /\ cdNow' = cdNow + 500
    /\ UNCHANGED <<cd, onExpiredCalls, notificationSent, timeVars, storageVars, screenVars, uiVars, restVars>>

NextCountdown == Mount \/ IntervalTick \/ ChangeDeadline \/ Unmount \/ AdvanceClock

SpecCountdown == InitCountdown /\ [][NextCountdown]_vars

\* C1: while a Countdown is mounted, onExpired has been invoked exactly once
\* if some run of updateCountdown since the effect ran computed total <= 0,
\* and not at all otherwise (the claim as stated; the interval's callback
\* keeps the isExpired of the render that created it, so every later tick
\* invokes onExpired again)
C1_OnExpiredExactlyOnce ==
    cd.mounted => onExpiredCalls = (IF cd.zeroTicks > 0 THEN 1 ELSE 0)

\* C11: once a mounted Countdown is Expired, no run of updateCountdown follows
\* the one that expired it: the run that set isExpired is the only one since
\* the effect ran that computed total <= 0 (the claim as stated; the effect
\* depends on the deadline alone, so nothing clears the interval at expiry
\* and it keeps firing every second until the parent unmounts the Countdown)
C11_TickingStopsAtExpiry ==
    (cd.mounted /\ cd.isExpired) => cd.zeroTicks = 1

\* C12: the first tick of a mounted, Running Countdown that computes
\* total <= 0 leaves it Expired (the claim as stated; after an expiry the
\* effect of a changed deadline hands setInterval the updateCountdown of the
\* render in which isExpired was still true, so that tick changes nothing)
C12_FirstZeroTickExpires ==
    [][(/\ cd.mounted /\ cd'.mounted /\ ~cd.isExpired
        /\ cd'.deadlineDate = cd.deadlineDate /\ cd'.deadlineTime = cd.deadlineTime
        /\ cd.zeroTicks = 0 /\ cd'.zeroTicks = 1)
          => cd'.isExpired]_vars

-----------------------------------------------------------------------------
(* SpecScreen: the HomeScreen with one GoalItem of its list, their timers  *)
(* and the clock                                                           *)

\* tenths of a second the clock runs for
MaxScreenTenths == 10

\* focus timeouts pending at once
MaxTimeouts == 1

\* the clock starts at 00:00:59 of the epoch day
ScreenStart == 59 * 1000

\* deadlines of the displayed goal: past from the start, passing while the
\* clock runs (within 60 s from the start), more than 60 s ahead at the start
\* and 60 s ahead one second later, and one whose day is not a number
ScreenDeadlines ==
    { <<formattedDate(2024, 2, 25), formattedTime(0, 0)>>,
      <<formattedDate(2024, 2, 25), formattedTime(0, 1)>>,
      <<formattedDate(2024, 2, 25), formattedTime(0, 2)>>,
      <<(<<"2", "0", "2", "4", "-", "0", "2", "-", "x", "x">>), formattedTime(0, 1)>> }

InitScreen ==
    /\ sNow = ScreenStart
    /\ timers = {}
    /\ item = ItemUnmounted
    /\ home = HomeUnmounted
    /\ TimeIdle
    /\ StorageIdle
    /\ CountdownIdle
    /\ UiIdle

TheWorld == World(timers, item, home)

SetWorld(w) ==
    /\ timers' = w.timers
    /\ item' = w.item
    /\ home' = w.home

\* HomeScreen.startExpiryChecking: clear the interval the ref holds, start one
startExpiryChecking(w, now) ==
    LET ts == IF w.home.expiryCheckInterval # 0
              THEN ClearInterval(w.timers, "HomeScreen", w.home.expiryCheckInterval)
              ELSE w.timers
        id == FreshId(ts, "HomeScreen", TRUE)
    IN  World(ts \cup {Timer(id, "HomeScreen", 1000, now, FALSE, <<>>, <<>>)},
              w.item, [w.home EXCEPT !.expiryCheckInterval = id])

\* HomeScreen.stopExpiryChecking
stopExpiryChecking(w) ==
    IF w.home.expiryCheckInterval # 0
    THEN World(ClearInterval(w.timers, "HomeScreen", w.home.expiryCheckInterval), w.item,
               [w.home EXCEPT !.expiryCheckInterval = 0])
    ELSE w

\* the useFocusEffect callback: loadGoals(), and a setTimeout of 100 ms whose
\* id is dropped
focusEffect(w, now) ==
    World(w.timers \cup {Timeout(FreshId(w.timers, "HomeScreen", FALSE),
                                 "HomeScreen", 100, now)},
          w.item, w.home)

\* the navigator renders the HomeScreen, focused: its mount effect starts the
\* expiry checking and the focus effect runs
HomeMount ==
    /\ ~home.mounted
    /\ Cardinality({t \in timers : ~t.repeat}) < MaxTimeouts
    /\ SetWorld(focusEffect(
           startExpiryChecking(
               World(timers, item, [home EXCEPT !.mounted = TRUE, !.focused = TRUE]),
               sNow),
           sNow))
    /\ UNCHANGED <<sNow, timeVars, storageVars, countdownVars, uiVars, restVars>>

\* navigation.navigate("CreateGoal" / "EditGoal"): the HomeScreen stays mounted
HomeBlur ==
    /\ home.mounted /\ home.focused
    /\ home' = [home EXCEPT !.focused = FALSE]
    /\ UNCHANGED <<sNow, timers, item, timeVars, storageVars, countdownVars, uiVars, restVars>>

\* navigation.goBack() from the other screen: the focus effect runs again
HomeFocus ==
    /\ home.mounted /\ ~home.focused
    /\ Cardinality({t \in timers : ~t.repeat}) < MaxTimeouts
    /\ SetWorld(focusEffect(World(timers, item, [home EXCEPT !.focused = TRUE]), sNow))
    /\ UNCHANGED <<sNow, timeVars, storageVars, countdownVars, uiVars, restVars>>

\* the HomeScreen is unmounted: its list items are unmounted with it and the
\* mount effect's cleanup stops the expiry checking
HomeUnmount ==
    /\ home.mounted
    /\ LET w1 == IF item.mounted THEN giUnmount(TheWorld) ELSE TheWorld
           w2 == stopExpiryChecking(w1)
       IN  SetWorld(World(w2.timers, w2.item,
                          [w2.home EXCEPT !.mounted = FALSE, !.focused = FALSE]))
    /\ UNCHANGED <<sNow, timeVars, storageVars, countdownVars, uiVars, restVars>>

\* the list renders a GoalItem for a goal
ItemMount ==
    \E dl \in ScreenDeadlines :
        /\ home.mounted
        /\ ~item.mounted
        /\ SetWorld(giMount(TheWorld, dl[1], dl[2], sNow))
        /\ UNCHANGED <<sNow, timeVars, storageVars, countdownVars, uiVars, restVars>>

\* loadGoals brings the goal back with an edited deadline: same id, so the
\* same GoalItem gets new props
ItemChangeDeadline ==
    \E dl \in ScreenDeadlines :
        /\ item.mounted
        /\ <<item.deadlineDate, item.deadlineTime>> # dl
        /\ SetWorld(giSettle(World(timers,
                                   [item EXCEPT !.deadlineDate = dl[1],
                                                !.deadlineTime = dl[2]],
                                   home),
                             sNow, TRUE))
        /\ UNCHANGED <<sNow, timeVars, storageVars, countdownVars, uiVars, restVars>>

\* the goal leaves the list (deleted, or filtered out)
ItemUnmount ==
    /\ item.mounted
    /\ SetWorld(giUnmount(TheWorld))
    /\ UNCHANGED <<sNow, timeVars, storageVars, countdownVars, uiVars, restVars>>

\* a due timer's callback runs: an interval is scheduled again, a timeout is
\* gone.  The HomeScreen's callbacks (checkForExpiredGoals,
\* checkForGoalsExpiringSoon) hand the list the same goal objects.
TimerFire ==
    \E t \in timers :
        /\ t.due <= sNow
        /\ SetWorld(IF t.owner = "GoalItem" THEN giTick(TheWorld, t, sNow)
                    ELSE IF t.owner = "Countdown" THEN cdTick(TheWorld, t, sNow)
                    ELSE IF t.repeat
                    THEN World((timers \ {t}) \cup {[t EXCEPT !.due = sNow + t.period]},
                               item, home)
                    ELSE World(timers \ {t}, item, home))
        /\ UNCHANGED <<sNow, timeVars, storageVars, countdownVars, uiVars, restVars>>

Min(S) == CHOOSE x \in S : \A y \in S : x <= y

\* time passes, to the next instant a timer is due or by half a second
ScreenClock ==
    /\ \A t \in timers : t.due > sNow
    /\ sNow' = Min({t.due : t \in timers} \cup {sNow + 500})
    /\ sNow' <= ScreenStart + MaxScreenTenths * 100
    /\ UNCHANGED <<timers, item, home, timeVars, storageVars, countdownVars, uiVars, restVars>>

NextScreen ==
    \/ HomeMount \/ HomeBlur \/ HomeFocus \/ HomeUnmount
    \/ ItemMount \/ ItemChangeDeadline \/ ItemUnmount
    \/ TimerFire \/ ScreenClock

SpecScreen == InitScreen /\ [][NextScreen]_vars

IntervalsOf(owner) == {t \in timers : t.owner = owner /\ t.repeat}

\* C13: the HomeScreen, the GoalItem and its Countdown each have at most one
\* interval timer pending
C13_OneIntervalPerInstance ==
    /\ Cardinality(IntervalsOf("HomeScreen")) <= 1
    /\ Cardinality(IntervalsOf("GoalItem")) <= 1
    /\ Cardinality(IntervalsOf("Countdown")) <= 1

\* C13's case: the GoalItem's effect has run again after a change (of the
\* deadline, or of isExpired) and the item is Running: one interval each
C13_Witness ==
    /\ item.mounted /\ ~item.isExpired /\ item.cd.mounted
    /\ item.rerun
    /\ Cardinality(IntervalsOf("GoalItem")) = 1
    /\ Cardinality(IntervalsOf("Countdown")) = 1
    /\ Cardinality(IntervalsOf("HomeScreen")) = 1

\* C14: an unmounted HomeScreen, GoalItem or Countdown has no timer of its
\* own pending, interval or timeout (the claim as stated; the timeout the
\* focus effect starts is never cleared and outlives the HomeScreen)
C14_NoTimerOutlivesOwner ==
    /\ ~home.mounted => \A t \in timers : t.owner # "HomeScreen"
    /\ ~item.mounted => \A t \in timers : t.owner # "GoalItem"
    /\ ~item.cd.mounted => \A t \in timers : t.owner # "Countdown"

\* C15: whenever the Running GoalItem's interval is scheduled (started, or
\* scheduled again after a tick), its period is 100 ms if at most 60 s remain
\* at that instant and 1 s otherwise (the claim as stated; the period is
\* chosen when the effect runs and the effect does not run again when the
\* remaining time drops to 60 s)
C15_PeriodFollowsRemaining ==
    \A t \in IntervalsOf("GoalItem") :
        (item.mounted /\ ~item.isExpired)
            => t.period = (IF isAboutToExpire(t.deadlineDate, t.deadlineTime,
                                              t.due - t.period)
                           THEN 100 ELSE 1000)

-----------------------------------------------------------------------------
(* SpecUI: the HomeScreen's list, the create and edit forms, and the       *)
(* GoalStorage writes they start                                           *)

\* goals a create may add to the stored list
MaxUiGoals == 2

\* writes in flight at once
MaxPending == 2

\* the instant 2024-02-29 12:30 and the millisecond before it
FormNows ==
    LET t == Val(deadlineGetTime(formattedDate(2024, 2, 29), formattedTime(12, 30)))
    IN  {t - 1, t}

\* what the title input is set to: too short once trimmed, and long enough
\* (it starts empty)
FormTitles == { <<" ", "a", "b">>, <<" ", "a", "b", "c", " ">> }

\* what the date picker hands back: yesterday and today of FormNows
FormDates == {formattedDate(2024, 2, 28), formattedDate(2024, 2, 29)}

FormTimes == {formattedTime(12, 30)}

\* a goal created before the session
SeedGoal ==
    [id |-> <<"g", "0">>, title |-> <<"a", "b", "c">>, description |-> Undefined,
     deadlineDate |-> formattedDate(2024, 2, 29),
     deadlineTime |-> formattedTime(12, 30),
     createdAt |-> toISOString(0)]

\* the HomeScreen is open and has loaded the stored list
InitUI ==
    /\ store = JSONstringify(<<SeedGoal>>)
    /\ last = NoCall
    /\ nav = "Home"
    /\ homeGoals = Persisted(store)
    /\ form = FormClosed
    /\ pending = {}
    /\ sub = NoSubmission
    /\ view = NoView
    /\ RestIdle
    /\ TimeIdle
    /\ CountdownIdle
    /\ ScreenIdle

\* GoalStorage.generateId: Date.now() followed by random characters, an id
\* no goal has yet
generateId(used) ==
    LET i == Min({k \in 1..9 : <<"g", Digits[k + 1]>> \notin used})
    IN  <<"g", Digits[i + 1]>>

UsedIds ==
    {Get(Persisted(store)[i], "id") : i \in 1..Len(Persisted(store))}
        \cup {Get(homeGoals[i], "id") : i \in 1..Len(homeGoals)}
        \cup {p.id : p \in pending}

\* a write that was started: the operation, its arguments, and whether the
\* screen that awaits it is still mounted
Write(op, id, goal, alive) ==
    [n |-> Min({k \in 1..(Cardinality(pending) + 1) : \A p \in pending : p.n # k}),
     op |-> op, id |-> id, goal |-> goal, alive |-> alive]

Submission(screen, now, errors) ==
    [screen |-> screen, title |-> form.title, deadlineDate |-> form.deadlineDate,
     deadlineTime |-> form.deadlineTime, now |-> now,
     alert |-> join(errors, "\n"), wrote |-> errors = <<>>]

\* HomeScreen.loadGoals, on mount, focus and pull-to-refresh
LoadGoals ==
    \E getFails \in BOOLEAN :
        /\ nav = "Home"
        /\ homeGoals' = getAllGoals(store, getFails).list
        /\ UNCHANGED <<nav, form, pending, sub, timeVars, storageVars,
                       countdownVars, screenVars, view, restVars>>

\* HomeScreen.handleCreateGoal: navigate to a fresh CreateGoalScreen
OpenCreate ==
    /\ nav = "Home"
    /\ nav' = "CreateGoal"
    /\ form' = FormClosed
    /\ sub' = NoSubmission
    /\ UNCHANGED <<homeGoals, pending, timeVars, storageVars, countdownVars, screenVars, view, restVars>>

\* HomeScreen.handleEditGoal: EditGoalScreen starts from the goal's fields
OpenEdit ==
    \E i \in 1..Len(homeGoals) :
        /\ nav = "Home"
        /\ nav' = "EditGoal"
        /\ form' = [title |-> Get(homeGoals[i], "title"),
                    description |-> descriptionOrEmpty(homeGoals[i]),
                    deadlineDate |-> Get(homeGoals[i], "deadlineDate"),
                    deadlineTime |-> Get(homeGoals[i], "deadlineTime"),
                    isLoading |-> FALSE, goal |-> homeGoals[i],
                    updatedGoalData |-> NoGoal, result |-> "none"]
        /\ sub' = NoSubmission
        /\ UNCHANGED <<homeGoals, pending, timeVars, storageVars, countdownVars, screenVars, view, restVars>>

\* the title input's onChangeText
SetTitle ==
    \E t \in FormTitles :
        /\ nav \in {"CreateGoal", "EditGoal"}
        /\ form' = [form EXCEPT !.title = t]
        /\ sub' = NoSubmission
        /\ UNCHANGED <<nav, homeGoals, pending, timeVars, storageVars,
                       countdownVars, screenVars, view, restVars>>

\* DatePicker's onDateChange
SetDeadlineDate ==
    \E d \in FormDates :
        /\ nav \in {"CreateGoal", "EditGoal"}
        /\ form' = [form EXCEPT !.deadlineDate = d]
        /\ sub' = NoSubmission
        /\ UNCHANGED <<nav, homeGoals, pending, timeVars, storageVars,
                       countdownVars, screenVars, view, restVars>>

\* TimePicker's onTimeChange
SetDeadlineTime ==
    \E t \in FormTimes :
        /\ nav \in {"CreateGoal", "EditGoal"}
        /\ form' = [form EXCEPT !.deadlineTime = t]
        /\ sub' = NoSubmission
        /\ UNCHANGED <<nav, homeGoals, pending, timeVars, storageVars,
                       countdownVars, screenVars, view, restVars>>

\* CreateGoalScreen.handleCreateGoal, up to the await: the button is
\* disabled while isLoading.  validateForm reads the clock (now) and the
\* createdAt stamp reads it again (stamp)
createGoal(now, stamp) ==
    LET errors == validateForm(form.title, form.deadlineDate, form.deadlineTime, now)
        newGoal == [id |-> generateId(UsedIds),
                    title |-> trim(form.title),
                    description |-> descriptionOrUndefined(form.description),
                    deadlineDate |-> form.deadlineDate,
                    deadlineTime |-> form.deadlineTime,
                    createdAt |-> toISOString(stamp)]
    IN  /\ nav = "CreateGoal"
        /\ ~form.isLoading
        /\ sub' = Submission("CreateGoal", now, errors)
        /\ IF errors # <<>>
           THEN UNCHANGED <<form, pending>>
           ELSE /\ Cardinality(pending) < MaxPending
                /\ Len(Persisted(store))
                     + Cardinality({p \in pending : p.op = "saveGoal"}) < MaxUiGoals
                /\ form' = [form EXCEPT !.isLoading = TRUE, !.result = "none"]
                /\ pending' = pending \cup {Write("saveGoal", newGoal.id, newGoal, TRUE)}
        /\ UNCHANGED <<nav, homeGoals, timeVars, storageVars, countdownVars, screenVars, view, restVars>>

\* the Create button pressed, both clock readings within one millisecond
handleCreateGoal ==
    \E now \in FormNows, stamp \in FormNows :
        /\ stamp = now
        /\ createGoal(now, stamp)

\* the Create button pressed, the clock advancing between validateForm and
\* the createdAt stamp
handleCreateGoalLate ==
    \E now \in FormNows, stamp \in FormNows :
        /\ stamp > now
        /\ createGoal(now, stamp)

\* EditGoalScreen.handleUpdateGoal, up to the await
handleUpdateGoal ==
    \E now \in FormNows :
        LET errors == validateForm(form.title, form.deadlineDate, form.deadlineTime, now)
            updatedGoalData == [title |-> trim(form.title),
                                description |-> descriptionOrUndefined(form.description),
                                deadlineDate |-> form.deadlineDate,
                                deadlineTime |-> form.deadlineTime]
        IN  /\ nav = "EditGoal"
            /\ ~form.isLoading
            /\ sub' = Submission("EditGoal", now, errors)
            /\ IF errors # <<>>
               THEN UNCHANGED <<form, pending>>
               ELSE /\ Cardinality(pending) < MaxPending
                    /\ form' = [form EXCEPT !.isLoading = TRUE, !.result = "none",
                                            !.updatedGoalData = updatedGoalData]
                    /\ pending' = pending
                         \cup {Write("updateGoal", form.goal.id, updatedGoalData, TRUE)}
            /\ UNCHANGED <<nav, homeGoals, timeVars, storageVars, countdownVars, screenVars, view, restVars>>

\* HomeScreen.handleDeleteGoal, up to the await: Delete was confirmed for a
\* goal of the list
handleDeleteGoal ==
    \E i \in 1..Len(homeGoals) :
        /\ nav = "Home"
        /\ Cardinality(pending) < MaxPending
        /\ pending' = pending
             \cup {Write("deleteGoal", Get(homeGoals[i], "id"), NoGoal, TRUE)}
        /\ UNCHANGED <<nav, homeGoals, form, sub, timeVars, storageVars,
                       countdownVars, screenVars, view, restVars>>

\* a write finishes and the handler that awaited it goes on: the HomeScreen
\* drops a deleted goal from its list; a form clears isLoading and shows the
\* success or the error alert
WriteCompletes ==
    \E p \in pending, getFails \in BOOLEAN, setFails \in BOOLEAN :
        LET o == IF p.op = "saveGoal" THEN saveGoal(store, p.goal, getFails, setFails)
                 ELSE IF p.op = "updateGoal"
                 THEN updateGoal(store, p.id, p.goal, getFails, setFails)
                 ELSE deleteGoal(store, p.id, getFails, setFails)
        IN  /\ store' = o.store
            /\ pending' = pending \ {p}
            /\ homeGoals' = IF p.op = "deleteGoal" /\ o.ret
                            THEN filterOut(homeGoals, p.id) ELSE homeGoals
            /\ form' = IF p.op # "deleteGoal" /\ p.alive
                       THEN [form EXCEPT !.isLoading = FALSE,
                                         !.result = IF o.ret THEN "success" ELSE "error"]
                       ELSE form
            /\ UNCHANGED <<nav, sub, last, timeVars, countdownVars, screenVars, view, restVars>>

\* OK on the success alert: EditGoalScreen hands the merged goal to the
\* HomeScreen's onGoalUpdated; both screens go back
SuccessOk ==
    /\ nav \in {"CreateGoal", "EditGoal"}
    /\ form.result = "success"
    /\ homeGoals' = IF nav = "EditGoal"
                    THEN [i \in 1..Len(homeGoals) |->
                            IF Get(homeGoals[i], "id") = form.goal.id
                            THEN Spread(form.goal, form.updatedGoalData)
                            ELSE homeGoals[i]]
                    ELSE homeGoals
    /\ nav' = "Home"
    /\ form' = FormClosed
    /\ sub' = NoSubmission
    /\ pending' = {[p EXCEPT !.alive = FALSE] : p \in pending}
    /\ UNCHANGED <<timeVars, storageVars, countdownVars, screenVars, view, restVars>>

\* the header's Back button, or Cancel and Discard: the screen is unmounted
GoBack ==
    /\ nav \in {"CreateGoal", "EditGoal"}
    /\ nav' = "Home"
    /\ form' = FormClosed
    /\ sub' = NoSubmission
    /\ pending' = {[p EXCEPT !.alive = FALSE] : p \in pending}
    /\ UNCHANGED <<homeGoals, timeVars, storageVars, countdownVars, screenVars, view, restVars>>

\* the two forms alone: the list is not refreshed and nothing is deleted
NextForm ==
    \/ OpenCreate \/ OpenEdit
    \/ SetTitle \/ SetDeadlineDate \/ SetDeadlineTime
    \/ handleCreateGoal \/ handleUpdateGoal
    \/ WriteCompletes \/ SuccessOk \/ GoBack

SpecForm == InitUI /\ [][NextForm]_vars

\* the HomeScreen's list with the edit form, its fields left as loaded
NextUI ==
    \/ LoadGoals \/ OpenEdit
    \/ handleUpdateGoal \/ handleDeleteGoal
    \/ WriteCompletes \/ SuccessOk \/ GoBack

SpecUI == InitUI /\ [][NextUI]_vars

\* the create form alone, with the clock free to advance inside the handler
NextCreate ==
    \/ OpenCreate
    \/ SetTitle \/ SetDeadlineDate \/ SetDeadlineTime
    \/ handleCreateGoal \/ handleCreateGoalLate
    \/ WriteCompletes \/ SuccessOk \/ GoBack

SpecCreate == InitUI /\ [][NextCreate]_vars

\* C16: at most one GoalStorage write started from the UI is in flight (the
\* claim as stated; handleDeleteGoal sets no loading state and the HomeScreen
\* disables nothing, so a second delete, or a create or an edit, can start
\* while a delete is pending)
C16_OneWriteInFlight ==
    Cardinality(pending) <= 1

\* C20: the submit button of the create or edit screen starts a write only
\* if the trimmed title has at least 3 characters, the deadline date is not
\* before the day of now and the deadline instant is after now; otherwise no
\* write is started and the alert holds the message of every failed check
C20_WriteOnlyIfValid ==
    sub.screen # "none" =>
        LET titleOk == Len(trim(sub.title)) >= 3
            dated   == sub.deadlineDate # <<>>
            timed   == sub.deadlineTime # <<>>
            dateOk  == dated /\ Instant(sub.deadlineDate, formattedTime(0, 0))
                                  >= Val(startOfDay(sub.now))
            timeOk  == dated /\ timed
                        /\ Instant(sub.deadlineDate, sub.deadlineTime) > sub.now
            shown(m) == \E i \in 1..Len(sub.alert) : sub.alert[i] = m
        IN  /\ sub.wrote <=> (titleOk /\ dateOk /\ timeOk)
            /\ sub.wrote <=> sub.alert = <<>>
            /\ ~titleOk => (shown("Title is required")
                             \/ shown("Title must be at least 3 characters long"))
            /\ ~dated => shown("Deadline date is required")
            /\ (dated /\ ~dateOk) => shown("Deadline date cannot be in the past")
            /\ ~timed => shown("Deadline time is required")
            /\ (dated /\ timed /\ ~timeOk) => shown("Deadline time cannot be in the past")

\* C20's case: a create submitted one millisecond before its deadline, which
\* is today, has started a saveGoal
C20_Witness ==
    /\ sub.screen = "CreateGoal"
    /\ sub.wrote
    /\ Instant(sub.deadlineDate, sub.deadlineTime) = sub.now + 1
    /\ \E p \in pending : p.op = "saveGoal" /\ p.goal.deadlineDate = sub.deadlineDate

-----------------------------------------------------------------------------
(* SpecList: HomeScreen.sortGoals, filterGoals and getProcessedGoals on    *)
(* bounded lists                                                           *)

\* goals in the list
MaxListLen == 3

IsDigits(tok, n) == Len(tok) = n /\ \A i \in 1..n : IsDigit(tok[i])

\* new Date(string).getTime() for the ISO forms "YYYY-MM-DDTHH:mm" and
\* "YYYY-MM-DDTHH:mm:ss.sssZ" (local time is UTC); NaN for other strings
DateParse(str) ==
    LET dt == Split(str, "T") IN
    IF Len(dt) # 2 THEN NaN
    ELSE LET d     == Split(dt[1], "-")
             clock == IF Len(dt[2]) > 0 /\ dt[2][Len(dt[2])] = "Z"
                      THEN SubSeq(dt[2], 1, Len(dt[2]) - 1) ELSE dt[2]
             t     == Split(clock, ":")
             secs  == IF Len(t) = 3 THEN Split(t[3], ".") ELSE <<>>
         IN  IF \/ Len(d) # 3
                \/ Len(t) \notin {2, 3}
                \/ (Len(t) = 3 /\ Len(secs) \notin {1, 2})
             THEN NaN
             ELSE IF \/ ~IsDigits(d[1], 4) \/ ~IsDigits(d[2], 2) \/ ~IsDigits(d[3], 2)
                     \/ ~IsDigits(t[1], 2) \/ ~IsDigits(t[2], 2)
                     \/ (Len(t) = 3 /\ ~IsDigits(secs[1], 2))
                     \/ (Len(t) = 3 /\ Len(secs) = 2 /\ ~IsDigits(secs[2], 3))
             THEN NaN
             ELSE Num(Val(DateGetTime(Number(d[1]), MinusOne(Number(d[2])),
                                      Number(d[3]), Number(t[1]), Number(t[2])))
                      + (IF Len(t) = 3 THEN 1000 * DecimalValue(secs[1]) ELSE 0)
                      + (IF Len(t) = 3 /\ Len(secs) = 2
                         THEN DecimalValue(secs[2]) ELSE 0))

\* the collation of String.prototype.localeCompare on the letters a, b, c,
\* d: by letter first, a lower-case letter before its capital on a tie
Primary(ch) ==
    IF ch \in {"a", "A"} THEN 1 ELSE IF ch \in {"b", "B"} THEN 2
    ELSE IF ch \in {"c", "C"} THEN 3 ELSE 4

Tertiary(ch) == IF ch \in {"A", "B", "C", "D"} THEN 1 ELSE 0

RECURSIVE seqCompare(_, _)
seqCompare(x, y) ==
    IF Len(x) = 0 /\ Len(y) = 0 THEN 0
    ELSE IF Len(x) = 0 THEN 0 - 1
    ELSE IF Len(y) = 0 THEN 1
    ELSE IF Head(x) < Head(y) THEN 0 - 1
    ELSE IF Head(x) > Head(y) THEN 1
    ELSE seqCompare(Tail(x), Tail(y))

localeCompare(a, b) ==
    LET p == seqCompare([i \in 1..Len(a) |-> Primary(a[i])],
                        [i \in 1..Len(b) |-> Primary(b[i])])
    IN  IF p # 0 THEN p
        ELSE seqCompare([i \in 1..Len(a) |-> Tertiary(a[i])],
                        [i \in 1..Len(b) |-> Tertiary(b[i])])

\* the template literal `${a.deadlineDate}T${a.deadlineTime}`
deadlineString(g) == Get(g, "deadlineDate") \o <<"T">> \o Get(g, "deadlineTime")

\* a comparator without the expired tier
compareKeyOnly(a, b, sortBy, filterBy, now) ==
    IF sortBy = "deadline"
    THEN JsMinus(DateParse(deadlineString(a)), DateParse(deadlineString(b)))
    ELSE IF sortBy = "created"
    THEN JsMinus(DateParse(Get(a, "createdAt")), DateParse(Get(b, "createdAt")))
    ELSE IF sortBy = "title"
    THEN Num(localeCompare(Get(a, "title"), Get(b, "title")))
    ELSE Num(0)

\* the comparator sortGoals hands to sort
compare(a, b, sortBy, filterBy, now) ==
    LET aExpired == isExpired(Get(a, "deadlineDate"), Get(a, "deadlineTime"), now)
        bExpired == isExpired(Get(b, "deadlineDate"), Get(b, "deadlineTime"), now)
    IN  IF filterBy = "all" /\ aExpired /\ ~bExpired THEN Num(1)
        ELSE IF filterBy = "all" /\ ~aExpired /\ bExpired THEN Num(0 - 1)
        ELSE IF sortBy = "deadline"
        THEN JsMinus(DateParse(deadlineString(a)), DateParse(deadlineString(b)))
        ELSE IF sortBy = "created"
        THEN JsMinus(DateParse(Get(a, "createdAt")), DateParse(Get(b, "createdAt")))
        ELSE IF sortBy = "title"
        THEN Num(localeCompare(Get(a, "title"), Get(b, "title")))
        ELSE Num(0)

\* an insertion that puts x before the elements it compares equal to
RECURSIVE insertBeforeEqual(_, _, _, _, _)
insertBeforeEqual(sorted, x, sortBy, filterBy, now) ==
    IF Len(sorted) = 0 THEN <<x>>
    ELSE LET l == sorted[Len(sorted)]
             c == compare(l, x, sortBy, filterBy, now)
         IN  IF ~IsNaN(c) /\ Val(c) >= 0
             THEN Append(insertBeforeEqual(SubSeq(sorted, 1, Len(sorted) - 1),
                                           x, sortBy, filterBy, now), l)
             ELSE Append(sorted, x)

\* x goes after the last element that is not greater than it; a comparator
\* value of NaN counts as 0
RECURSIVE insert(_, _, _, _, _)
insert(sorted, x, sortBy, filterBy, now) ==
    IF Len(sorted) = 0 THEN <<x>>
    ELSE LET l == sorted[Len(sorted)]
             c == compare(l, x, sortBy, filterBy, now)
         IN  IF ~IsNaN(c) /\ Val(c) > 0
             THEN Append(insert(SubSeq(sorted, 1, Len(sorted) - 1),
                                x, sortBy, filterBy, now), l)
             ELSE Append(sorted, x)

\* Array.prototype.sort with the comparator: sorted and stable, as
\* ECMAScript requires for a consistent comparator
RECURSIVE arraySort(_, _, _, _)
arraySort(arr, sortBy, filterBy, now) ==
    IF Len(arr) = 0 THEN <<>>
    ELSE insert(arraySort(SubSeq(arr, 1, Len(arr) - 1), sortBy, filterBy, now),
                arr[Len(arr)], sortBy, filterBy, now)

\* sortGoals: the array returned, and the argument array after the call
\* (the sort works on the copy [...goalsToSort])
sortGoals(goalsToSort, sortBy, filterBy, now) ==
    [returned |-> arraySort(goalsToSort, sortBy, filterBy, now),
     goalsToSort |-> goalsToSort]

\* a filter whose "active" mode keeps every goal
RECURSIVE filterGoalsActiveKeepsAll(_, _, _)
filterGoalsActiveKeepsAll(goalsToFilter, filterBy, now) ==
    IF Len(goalsToFilter) = 0 THEN <<>>
    ELSE LET goal == Head(goalsToFilter)
             expired == isExpired(Get(goal, "deadlineDate"),
                                  Get(goal, "deadlineTime"), now)
             keep == IF filterBy = "expired" THEN expired ELSE TRUE
         IN  (IF keep THEN <<goal>> ELSE <<>>)
                 \o filterGoalsActiveKeepsAll(Tail(goalsToFilter), filterBy, now)

\* filterGoals
RECURSIVE filterGoals(_, _, _)
filterGoals(goalsToFilter, filterBy, now) ==
    IF Len(goalsToFilter) = 0 THEN <<>>
    ELSE LET goal == Head(goalsToFilter)
             expired == isExpired(Get(goal, "deadlineDate"),
                                  Get(goal, "deadlineTime"), now)
             keep == IF filterBy = "active" THEN ~expired
                     ELSE IF filterBy = "expired" THEN expired
                     ELSE TRUE
         IN  (IF keep THEN <<goal>> ELSE <<>>)
                 \o filterGoals(Tail(goalsToFilter), filterBy, now)

ListGoal(id, title, deadlineDate, createdAt) ==
    [id |-> id, title |-> title, deadlineDate |-> deadlineDate,
     deadlineTime |-> formattedTime(12, 30), createdAt |-> createdAt]

\* goals the forms have written: one whose deadline is the later instant of
\* FormNows, two due a day later with equal deadlines and creation instants,
\* two that are past with equal deadlines and creation instants; titles
\* that differ by a letter, by case, or not at all.  And a record whose day
\* is not a number.
ListPool ==
    { ListGoal(<<"g", "1">>, <<"a", "b", "c">>, formattedDate(2024, 2, 29),
               toISOString(1000 * 60 * 60 * 24)),
      ListGoal(<<"g", "2">>, <<"A", "b", "c">>, formattedDate(2024, 3, 1),
               toISOString(0)),
      ListGoal(<<"g", "3">>, <<"a", "b", "c">>, formattedDate(2024, 3, 1),
               toISOString(0)),
      ListGoal(<<"g", "4">>, <<"a", "b", "b">>, formattedDate(2024, 2, 28),
               toISOString(1000)),
      ListGoal(<<"g", "5">>, <<"a", "b", "c">>, formattedDate(2024, 2, 28),
               toISOString(1000)),
      ListGoal(<<"g", "6">>, <<"a", "b", "d">>,
               <<"2", "0", "2", "4", "-", "0", "2", "-", "x", "x">>,
               toISOString(2000)) }

\* lists of distinct goals
ListInputs ==
    UNION { {l \in [1..n -> ListPool] : \A i, j \in 1..n : l[i] = l[j] => i = j}
            : n \in 0..MaxListLen }

WellFormed(list) ==
    \A i \in 1..Len(list) :
        ParsesToInstant(Get(list[i], "deadlineDate"), Get(list[i], "deadlineTime"))

InitList ==
    /\ view \in { [NoView EXCEPT !.goals = l, !.now = n]
                     : l \in ListInputs, n \in FormNows }
    /\ nav = "Home"
    /\ homeGoals = <<>>
    /\ form = FormClosed
    /\ pending = {}
    /\ sub = NoSubmission
    /\ RestIdle
    /\ TimeIdle
    /\ StorageIdle
    /\ CountdownIdle
    /\ ScreenIdle

ListRest == <<nav, homeGoals, form, pending, sub, timeVars, storageVars,
              countdownVars, screenVars, restVars>>

\* the sort options of the modal
SetSortBy ==
    \E k \in {"deadline", "created", "title"} :
        /\ view' = [view EXCEPT !.sortBy = k, !.op = "none",
                                !.input = <<>>, !.out = <<>>]
        /\ UNCHANGED ListRest

\* the filter options of the modal
SetFilterBy ==
    \E f \in {"all", "active", "expired"} :
        /\ view' = [view EXCEPT !.filterBy = f, !.op = "none",
                                !.input = <<>>, !.out = <<>>]
        /\ UNCHANGED ListRest

\* sortGoals(goals); with a record that has no deadline instant the
\* comparator is inconsistent and the order sort gives is left to the engine
CallSortGoals ==
    /\ WellFormed(view.goals)
    /\ LET r == sortGoals(view.goals, view.sortBy, view.filterBy, view.now) IN
       view' = [view EXCEPT !.op = "sortGoals", !.input = view.goals,
                            !.goals = r.goalsToSort, !.out = r.returned]
    /\ UNCHANGED ListRest

\* filterGoals(goals)
CallFilterGoals ==
    /\ view' = [view EXCEPT !.op = "filterGoals", !.input = view.goals,
                            !.out = filterGoals(view.goals, view.filterBy, view.now)]
    /\ UNCHANGED ListRest

\* getProcessedGoals: sortGoals(filterGoals(goals))
CallGetProcessedGoals ==
    LET filtered == filterGoals(view.goals, view.filterBy, view.now) IN
    /\ WellFormed(filtered)
    /\ view' = [view EXCEPT
                   !.op = "getProcessedGoals", !.input = view.goals,
                   !.out = sortGoals(filtered, view.sortBy, view.filterBy,
                                     view.now).returned]
    /\ UNCHANGED ListRest

\* HomeScreen.getStats; readings[i] is the clock that the i-th call of
\* CountdownUtils.isExpired reads: the active filter makes the first
\* goals.length calls, the expired filter the rest
getStats(goals, readings) ==
    LET n == Len(goals)
        expiredAt(i, k) == isExpired(Get(goals[i], "deadlineDate"),
                                     Get(goals[i], "deadlineTime"), readings[k])
    IN  [total   |-> n,
         active  |-> Cardinality({i \in 1..n : ~expiredAt(i, i)}),
         expired |-> Cardinality({i \in 1..n : expiredAt(i, n + i)})]

\* the header is rendered: getStats(), the clock going from view.now to a
\* later reading after any number of the isExpired calls
CallGetStats ==
    \E later \in FormNows, k \in 0..(2 * Len(view.goals)) :
        /\ later >= view.now
        /\ (later = view.now => k = 0)
        /\ view' = [view EXCEPT
                       !.op = "getStats", !.input = view.goals, !.out = <<>>,
                       !.stats = getStats(view.goals,
                                          [i \in 1..(2 * Len(view.goals)) |->
                                              IF i <= k THEN view.now ELSE later])]
        /\ UNCHANGED ListRest

NextList ==
    \/ SetSortBy \/ SetFilterBy
    \/ CallSortGoals \/ CallFilterGoals \/ CallGetProcessedGoals

SpecList == InitList /\ [][NextList]_vars

Expired(g) == isExpired(Get(g, "deadlineDate"), Get(g, "deadlineTime"), view.now)

\* the chosen key of a is at most that of b, from the instants and titles
KeyLe(a, b) ==
    IF view.sortBy = "deadline"
    THEN Instant(a.deadlineDate, a.deadlineTime) <= Instant(b.deadlineDate, b.deadlineTime)
    ELSE IF view.sortBy = "created"
    THEN Val(DateParse(a.createdAt)) <= Val(DateParse(b.createdAt))
    ELSE localeCompare(a.title, b.title) <= 0

Permutation(a, b) ==
    /\ Len(a) = Len(b)
    /\ \A i \in 1..Len(a) : \E j \in 1..Len(b) : b[j] = a[i]

PosIn(list, g) == CHOOSE k \in 1..Len(list) : list[k] = g

C18_FilterPartitions ==
    view.op = "filterGoals" =>
        LET active  == filterGoals(view.input, "active", view.now)
            expired == filterGoals(view.input, "expired", view.now)
            in(list, g) == \E k \in 1..Len(list) : list[k] = g
        IN  /\ filterGoals(view.input, "all", view.now) = view.input
            /\ \A i \in 1..Len(view.input) :
                  in(active, view.input[i]) # in(expired, view.input[i])
            /\ Len(active) + Len(expired) = Len(view.input)
            /\ \A i \in 1..Len(active) : ~Expired(active[i])
            /\ \A i \in 1..Len(expired) : Expired(expired[i])
            /\ view.out = filterGoals(view.input, view.filterBy, view.now)

\* C18's case: mode "active" has dropped an expired goal from a list that
\* also holds an active goal and the record without a deadline instant
C18_Witness ==
    /\ view.op = "filterGoals" /\ view.filterBy = "active"
    /\ Len(view.out) = 2 /\ Len(view.input) = 3
    /\ \E i \in 1..2 : ~ParsesToInstant(view.out[i].deadlineDate, view.out[i].deadlineTime)

\* the header alone, for the lists and instants of InitList
NextStats == CallGetStats

SpecStats == InitList /\ [][NextStats]_vars

\* C28: getStats returns active + expired = total (the claim as stated; each
\* isExpired call reads the clock itself, so a goal whose deadline passes
\* between the two filters is counted by both)
C28_StatsAddUp ==
    view.op = "getStats" => view.stats.active + view.stats.expired = view.stats.total

-----------------------------------------------------------------------------
(* SpecCreate, continued: the creation stamp, read with DateParse          *)

\* C27: the deadline instant of every goal CreateGoalScreen hands to saveGoal
\* is later than its createdAt instant (the claim as stated; createdAt is
\* stamped from a clock reading taken after the one validateForm compared
\* the deadline with)
C27_DeadlineAfterCreatedAt ==
    \A p \in pending :
        p.op = "saveGoal"
            => Instant(p.goal.deadlineDate, p.goal.deadlineTime)
                 > Val(DateParse(p.goal.createdAt))

-----------------------------------------------------------------------------
(* SpecProgress: GoalItem's progress bar (GoalItem.tsx).  prog holds the   *)
(* goal's deadline and createdAt, the isExpired state, the clock of the    *)
(* last reading, what calculateTargetProgress returned and the             *)
(* currentProgress state.                                                  *)
(*                                                                         *)
(* A JS number that need not be an integer is <<kind, num, den>>: kind is  *)
(* "fin" (the fraction num/den in lowest terms, den > 0), "nan", "+inf" or *)
(* "-inf".  Rounding of the floating-point operations is not modelled.     *)

Abs(n) == IF n < 0 THEN -n ELSE n

RECURSIVE GCD(_, _)
GCD(a, b) == IF b = 0 THEN a ELSE GCD(b, a % b)

FloatNaN == <<"nan", 0, 1>>
PosInfinity == <<"+inf", 0, 1>>
NegInfinity == <<"-inf", 0, 1>>

\* the finite number n/d, d # 0
Frac(n, d) ==
    LET g == GCD(Abs(n), Abs(d))
    IN  IF d > 0 THEN <<"fin", n \div g, d \div g>>
        ELSE <<"fin", (-n) \div g, (-d) \div g>>

\* an integer-valued JS number (NaN or <<v>>) as a float
Float(x) == IF IsNaN(x) THEN FloatNaN ELSE Frac(Val(x), 1)

\* a / b; a and b are finite or NaN
FloatDiv(a, b) ==
    IF a[1] = "nan" \/ b[1] = "nan" THEN FloatNaN
    ELSE IF b[2] = 0
    THEN (IF a[2] = 0 THEN FloatNaN
          ELSE IF a[2] > 0 THEN PosInfinity ELSE NegInfinity)
    ELSE Frac(a[2] * b[3], a[3] * b[2])

\* a - b; a and b are finite or NaN
FloatMinus(a, b) ==
    IF a[1] = "nan" \/ b[1] = "nan" THEN FloatNaN
    ELSE Frac(a[2] * b[3] - b[2] * a[3], a[3] * b[3])

\* a * b; b is finite and positive
FloatTimes(a, b) ==
    IF a[1] = "fin" THEN Frac(a[2] * b[2], a[3] * b[3]) ELSE a

\* a < b, neither NaN
FloatLess(a, b) ==
    IF a[1] = "-inf" THEN b[1] # "-inf"
    ELSE IF a[1] = "+inf" THEN FALSE
    ELSE IF b[1] = "+inf" THEN TRUE
    ELSE IF b[1] = "-inf" THEN FALSE
    ELSE a[2] * b[3] < b[2] * a[3]

\* Math.max and Math.min of two numbers: NaN if either is NaN
MathMax(a, b) ==
    IF a[1] = "nan" \/ b[1] = "nan" THEN FloatNaN
    ELSE IF FloatLess(a, b) THEN b ELSE a

MathMin(a, b) ==
    IF a[1] = "nan" \/ b[1] = "nan" THEN FloatNaN
    ELSE IF FloatLess(b, a) THEN b ELSE a

\* the two durations of calculateTargetProgress, to the returned value
progressOf(totalDurationSeconds, timeRemainingSeconds) ==
    MathMin(Frac(100, 1),
            MathMax(Frac(0, 1),
                    FloatTimes(FloatDiv(FloatMinus(totalDurationSeconds,
                                                   timeRemainingSeconds),
                                        totalDurationSeconds),
                               Frac(100, 1))))

\* GoalItem.calculateTargetProgress, with the isExpired state and the clock
\* reading `now`
calculateTargetProgress(deadlineDate, deadlineTime, createdAt, expired, now) ==
    IF expired THEN Frac(100, 1)
    ELSE IF IsUndefined(deadlineDate) \/ IsUndefined(deadlineTime)
    THEN Frac(0, 1)                         \* .split throws: the catch branch
    ELSE progressOf(
            FloatDiv(Float(JsMinus(deadlineGetTime(deadlineDate, deadlineTime),
                                   DateParse(createdAt))),
                     Frac(1000, 1)),
            MathMax(Frac(0, 1),
                    FloatDiv(Float(JsMinus(deadlineGetTime(deadlineDate, deadlineTime),
                                           Num(now))),
                             Frac(1000, 1))))

\* Math.abs(newProgress - currentProgress) > 0.1
significantChange(newProgress, currentProgress) ==
    /\ newProgress[1] = "fin"
    /\ currentProgress[1] = "fin"
    /\ \/ FloatLess(Frac(1, 10), FloatMinus(newProgress, currentProgress))
       \/ FloatLess(Frac(1, 10), FloatMinus(currentProgress, newProgress))

\* deadlines one and two minutes after the model's epoch
ProgressDeadlines == {formattedTime(0, 1), formattedTime(0, 2)}

\* clock readings and creation instants, half a minute apart
ProgressInstants == {k * 30000 : k \in 0..5}

\* a GoalItem is mounted: isExpired starts as CountdownUtils.isExpired says,
\* currentProgress at 0
InitProgress ==
    /\ \E t \in ProgressDeadlines, c \in ProgressInstants, now \in ProgressInstants :
          prog = [deadlineDate |-> formattedDate(2024, 2, 25), deadlineTime |-> t,
                  createdAt |-> toISOString(c), now |-> now,
                  isExpired |-> isExpired(formattedDate(2024, 2, 25), t, now),
                  called |-> FALSE, progress |-> <<>>,
                  currentProgress |-> Frac(0, 1)]
    /\ calls = NoCalls
    /\ picker = NoPicker
    /\ TimeIdle
    /\ StorageIdle
    /\ CountdownIdle
    /\ ScreenIdle
    /\ UiOnlyIdle

ProgressRest ==
    <<timeVars, storageVars, countdownVars, screenVars, uiVars, calls, picker>>

\* GoalItem.checkExpiredState, at a later clock reading
checkExpiredState ==
    \E now \in ProgressInstants :
        /\ now >= prog.now
        /\ prog' = [prog EXCEPT !.now = now,
                                !.isExpired = isExpired(prog.deadlineDate,
                                                        prog.deadlineTime, now),
                                !.called = FALSE, !.progress = <<>>]
        /\ UNCHANGED ProgressRest

\* what updateProgress leaves in currentProgress for the target it computed
progressAfter(targetProgress, currentProgress) ==
    IF significantChange(MathMin(Frac(100, 1), MathMax(Frac(0, 1), targetProgress)),
                         currentProgress)
    THEN MathMin(Frac(100, 1), MathMax(Frac(0, 1), targetProgress))
    ELSE currentProgress

\* GoalItem.updateProgress, at a later clock reading
updateProgress ==
    \E now \in ProgressInstants :
        /\ now >= prog.now
        /\ ~prog.isExpired
        /\ prog' = [prog EXCEPT
                      !.now = now, !.called = TRUE,
                      !.progress = calculateTargetProgress(
                                       prog.deadlineDate, prog.deadlineTime,
                                       prog.createdAt, prog.isExpired, now),
                      !.currentProgress = progressAfter(
                                       calculateTargetProgress(
                                           prog.deadlineDate, prog.deadlineTime,
                                           prog.createdAt, prog.isExpired, now),
                                       prog.currentProgress)]
        /\ UNCHANGED ProgressRest

NextProgress == checkExpiredState \/ updateProgress

SpecProgress == InitProgress /\ [][NextProgress]_vars

\* C22: for a goal whose isExpired state is false, calculateTargetProgress
\* returns ((deadline - createdAt) - (deadline - now)) / (deadline - createdAt)
\* * 100 clamped to 0..100, and 100 when deadline - createdAt <= 0 (the claim
\* as stated; with deadline = createdAt the code divides by zero and returns
\* 0 or NaN)
C22_ProgressIsClampedShare ==
    (prog.called /\ ~prog.isExpired) =>
        LET total   == Instant(prog.deadlineDate, prog.deadlineTime)
                         - Val(DateParse(prog.createdAt))
            elapsed == prog.now - Val(DateParse(prog.createdAt))
        IN  prog.progress =
                IF total <= 0 THEN Frac(100, 1)
                ELSE IF elapsed <= 0 THEN Frac(0, 1)
                ELSE IF elapsed >= total THEN Frac(100, 1)
                ELSE Frac(100 * elapsed, total)

-----------------------------------------------------------------------------
(* SpecLegacy: the storage object of storage.js.  store is the value under *)
(* GOALS_KEY; last is the last call, as in SpecStorage, with ret true for  *)
(* a returned goal (kept in list) or a returned true, false for null or    *)
(* false.                                                                  *)

\* n.toString() for an integer n >= 0
RECURSIVE NumberToString(_)
NumberToString(n) ==
    IF n < 10 THEN <<Digits[n + 1]>>
    ELSE NumberToString(n \div 10) \o <<Digits[(n % 10) + 1]>>

\* storage.saveGoals: false when setItem rejects
saveGoals(st, goals, setFails) ==
    IF setFails THEN Outcome(FALSE, <<>>, FALSE, st, {"setItem"})
    ELSE Outcome(TRUE, <<>>, FALSE, JSONstringify(goals), {})

\* storage.loadGoals: [] when getItem rejects or JSON.parse throws
loadGoals(st, getFails) ==
    IF getFails THEN Outcome(FALSE, <<>>, FALSE, st, {"getItem"})
    ELSE IF st.kind = "array" THEN Outcome(FALSE, st.goals, FALSE, st, {})
    ELSE Outcome(FALSE, <<>>, FALSE, st, {})

\* what a storage.js operation returns after its this.saveGoals(goals): the
\* value of saveGoals is dropped
AfterSave(loaded, saved, returned) ==
    Outcome(TRUE, <<returned>>, FALSE, saved.store, loaded.failed \cup saved.failed)

\* updateGoal once goals[goalIndex] is merged: saveGoals, return goals[goalIndex]
UpdatedWith(loaded, goals, goalIndex, setFails) ==
    AfterSave(loaded, saveGoals(loaded.store, goals, setFails), goals[goalIndex])

\* addGoal once loadGoals has returned: goals.push(newGoal), saveGoals, return
AddWith(loaded, newGoal, setFails) ==
    AfterSave(loaded, saveGoals(loaded.store, Append(loaded.list, newGoal), setFails),
              newGoal)

\* deleteGoal once loadGoals has returned
DeleteWith(loaded, goalId, setFails) ==
    Outcome(TRUE, <<>>, FALSE,
            saveGoals(loaded.store, filterOut(loaded.list, goalId), setFails).store,
            loaded.failed \cup (IF setFails THEN {"setItem"} ELSE {}))

\* updateGoal once loadGoals has returned: null when the id is absent
UpdateAt(loaded, goalId, updatedGoal, setFails) ==
    LET goalIndex == findIndex(loaded.list, goalId) IN
    IF goalIndex = 0 - 1 THEN Outcome(FALSE, <<>>, FALSE, loaded.store, loaded.failed)
    ELSE UpdatedWith(loaded,
                     [loaded.list EXCEPT
                        ![goalIndex] = Spread(loaded.list[goalIndex], updatedGoal)],
                     goalIndex, setFails)

\* storage.addGoal, Date.now() and new Date() both reading now
addGoal(st, goal, now, getFails, setFails) ==
    LET newGoal == Spread(Spread([id |-> NumberToString(now)], goal),
                          [createdAt |-> toISOString(now)])
    IN  AddWith(loadGoals(st, getFails), newGoal, setFails)

\* storage.deleteGoal
legacyDeleteGoal(st, goalId, getFails, setFails) ==
    DeleteWith(loadGoals(st, getFails), goalId, setFails)

\* storage.updateGoal
legacyUpdateGoal(st, goalId, updatedGoal, getFails, setFails) ==
    UpdateAt(loadGoals(st, getFails), goalId, updatedGoal, setFails)

\* what addGoal is given: the fields of a form
LegacyInputs ==
    { [title |-> <<"A">>, deadlineDate |-> formattedDate(2024, 3, 1),
       deadlineTime |-> formattedTime(12, 30)],
      [title |-> <<"B">>, deadlineDate |-> formattedDate(2024, 3, 1),
       deadlineTime |-> formattedTime(12, 30)] }

\* readings of Date.now()
LegacyNows == {7, 12}

LegacyIds == {NumberToString(n) : n \in LegacyNows} \cup {<<"9">>}

InitLegacy ==
    /\ store \in {MissingKey, CorruptValue}
    /\ last = NoCall
    /\ TimeIdle
    /\ CountdownIdle
    /\ ScreenIdle
    /\ UiIdle

LegacyRest == <<timeVars, countdownVars, screenVars, uiVars, restVars>>

LegacyAddGoal ==
    \E goal \in LegacyInputs, now \in LegacyNows,
       getFails \in BOOLEAN, setFails \in BOOLEAN :
        /\ Len(Persisted(store)) < MaxGoals
        /\ LET o == addGoal(store, goal, now, getFails, setFails) IN
            /\ store' = o.store
            /\ last' = Called("addGoal", goal, Undefined, NoGoal, o)
        /\ UNCHANGED LegacyRest

LegacyDeleteGoal ==
    \E goalId \in LegacyIds, getFails \in BOOLEAN, setFails \in BOOLEAN :
        /\ LET o == legacyDeleteGoal(store, goalId, getFails, setFails) IN
            /\ store' = o.store
            /\ last' = Called("deleteGoal", NoGoal, goalId, NoGoal, o)
        /\ UNCHANGED LegacyRest

LegacyUpdateGoal ==
    \E goalId \in LegacyIds, getFails \in BOOLEAN, setFails \in BOOLEAN :
        /\ LET o == legacyUpdateGoal(store, goalId, [title |-> <<"X">>],
                                     getFails, setFails) IN
            /\ store' = o.store
            /\ last' = Called("updateGoal", NoGoal, goalId, [title |-> <<"X">>], o)
        /\ UNCHANGED LegacyRest

NextLegacy == LegacyAddGoal \/ LegacyDeleteGoal \/ LegacyUpdateGoal

SpecLegacy == InitLegacy /\ [][NextLegacy]_vars

\* C29: when the setItem of storage.js's addGoal, updateGoal or deleteGoal
\* failed, the operation returns null (addGoal, updateGoal) or false
\* (deleteGoal) (the claim as stated; the value of this.saveGoals is dropped)
C29_LegacyReportsFailedWrite ==
    (last.op \in {"addGoal", "updateGoal", "deleteGoal"} /\ "setItem" \in last.failed)
        => ~last.ret


-----------------------------------------------------------------------------
(* SpecPicker: the TimePicker component (TimePicker.tsx) under a parent    *)
(* that stores what onTimeChange hands it and passes it back as            *)
(* selectedTime.  picker holds the prop, the hour, minute and isAM state   *)
(* (JS numbers), and of the last Confirm: the selectedTime it was pressed  *)
(* under (loaded), whether a wheel or the AM/PM toggle was used since that *)
(* was loaded (touched), the state converted and the string emitted.       *)

\* the longest prefix of decimal digits
RECURSIVE digitPrefix(_)
digitPrefix(tok) ==
    IF tok # <<>> /\ IsDigit(Head(tok))
    THEN <<Head(tok)>> \o digitPrefix(Tail(tok))
    ELSE <<>>

\* parseInt(string, 10) over the alphabet digits, "-", ":", letters: an
\* optional "-", then the digits up to the first other character; NaN if
\* there is no digit
parseInt(tok) ==
    IF tok # <<>> /\ Head(tok) = "-"
    THEN (IF digitPrefix(Tail(tok)) = <<>> THEN NaN
          ELSE Num(0 - DecimalValue(digitPrefix(Tail(tok)))))
    ELSE (IF digitPrefix(tok) = <<>> THEN NaN
          ELSE Num(DecimalValue(digitPrefix(tok))))

\* Number.prototype.toString for an integer or NaN
numberToString(x) ==
    IF IsNaN(x) THEN <<"N", "a", "N">>
    ELSE IF Val(x) < 0 THEN <<"-">> \o NumberToString(0 - Val(x))
    ELSE NumberToString(Val(x))

\* String.prototype.padStart(targetLength, padString) for a one-character
\* padString
RECURSIVE padStart(_, _, _)
padStart(str, targetLength, padString) ==
    IF Len(str) >= targetLength THEN str
    ELSE padStart(<<padString>> \o str, targetLength, padString)

\* the 24-hour to 12-hour branches of the selectedTime effect
to12Hour(hour24, minute24) ==
    IF hour24 = Num(0)
    THEN [hour |-> Num(12), minute |-> minute24, isAM |-> TRUE]
    ELSE IF ~IsNaN(hour24) /\ Val(hour24) < 12
    THEN [hour |-> hour24, minute |-> minute24, isAM |-> TRUE]
    ELSE IF hour24 = Num(12)
    THEN [hour |-> Num(12), minute |-> minute24, isAM |-> FALSE]
    ELSE [hour |-> JsMinus(hour24, Num(12)), minute |-> minute24, isAM |-> FALSE]

\* the effect on [selectedTime]: parse the prop, or take the current time
\* when it is empty
selectedTimeEffect(selectedTime, nowHours, nowMinutes) ==
    IF selectedTime # <<>>
    THEN to12Hour(parseInt(Split(selectedTime, ":")[1]),
                  IF Len(Split(selectedTime, ":")) >= 2
                  THEN parseInt(Split(selectedTime, ":")[2])
                  ELSE NaN)
    ELSE to12Hour(Num(nowHours), Num(nowMinutes))

\* convertTo24Hour without the midnight branch
convertTo24HourNoMidnight(hour12, minute12, isAM) ==
    padStart(numberToString(IF ~isAM /\ hour12 # Num(12)
                            THEN (IF IsNaN(hour12) THEN NaN ELSE Num(Val(hour12) + 12))
                            ELSE hour12),
             2, "0")
        \o <<":">> \o padStart(numberToString(minute12), 2, "0")

\* TimePicker.convertTo24Hour
convertTo24Hour(hour12, minute12, isAM) ==
    padStart(numberToString(IF isAM /\ hour12 = Num(12) THEN Num(0)
                            ELSE IF ~isAM /\ hour12 # Num(12)
                            THEN (IF IsNaN(hour12) THEN NaN ELSE Num(Val(hour12) + 12))
                            ELSE hour12),
             2, "0")
        \o <<":">> \o padStart(numberToString(minute12), 2, "0")

\* every "HH:MM" of a day
DayTimes == {formattedTime(h, mi) : h \in 0..23, mi \in 0..59}

\* what the wheels are turned to
WheelHours == {1, 11, 12}
WheelMinutes == {0, 59}

\* the local time when the picker is mounted: midnight, and 13:07
MountClocks == {<<0, 0>>, <<13, 7>>}

Loaded(selectedTime, clock) ==
    [selectedTime |-> selectedTime, isVisible |-> FALSE,
     hour |-> selectedTimeEffect(selectedTime, clock[1], clock[2]).hour,
     minute |-> selectedTimeEffect(selectedTime, clock[1], clock[2]).minute,
     isAM |-> selectedTimeEffect(selectedTime, clock[1], clock[2]).isAM,
     loaded |-> selectedTime, touched |-> FALSE,
     confirmed |-> <<>>, emitted |-> <<>>]

\* a TimePicker is mounted with an empty selectedTime (the create form) or a
\* stored deadlineTime (the edit form), and its effect has run
InitPicker ==
    /\ \E selectedTime \in DayTimes \cup {<<>>}, clock \in MountClocks :
          /\ selectedTime # <<>> => clock = <<0, 0>>
          /\ picker = Loaded(selectedTime, clock)
    /\ calls = NoCalls
    /\ prog = NoProgress
    /\ TimeIdle
    /\ StorageIdle
    /\ CountdownIdle
    /\ ScreenIdle
    /\ UiOnlyIdle

PickerRest ==
    <<timeVars, storageVars, countdownVars, screenVars, uiVars, calls, prog>>

\* the time button: setIsVisible(true).  After a Confirm, what the picker
\* shows was loaded from the selectedTime it has now
OpenPicker ==
    /\ ~picker.isVisible
    /\ picker' = [picker EXCEPT
                    !.isVisible = TRUE,
                    !.loaded = IF picker.emitted # <<>>
                               THEN picker.selectedTime ELSE picker.loaded,
                    !.touched = picker.emitted = <<>> /\ picker.touched,
                    !.confirmed = <<>>, !.emitted = <<>>]
    /\ UNCHANGED PickerRest

\* an option of the hour wheel: setHour
SetHour ==
    \E h \in WheelHours :
        /\ picker.isVisible
        /\ picker' = [picker EXCEPT !.hour = Num(h), !.touched = TRUE]
        /\ UNCHANGED PickerRest

\* an option of the minute wheel: setMinute
SetMinute ==
    \E mi \in WheelMinutes :
        /\ picker.isVisible
        /\ picker' = [picker EXCEPT !.minute = Num(mi), !.touched = TRUE]
        /\ UNCHANGED PickerRest

\* the AM and PM buttons: setIsAM
SetIsAM ==
    \E b \in BOOLEAN :
        /\ picker.isVisible
        /\ picker' = [picker EXCEPT !.isAM = b, !.touched = TRUE]
        /\ UNCHANGED PickerRest

\* Cancel, the close button and the back key: setIsVisible(false)
ClosePicker ==
    /\ picker.isVisible
    /\ picker' = [picker EXCEPT !.isVisible = FALSE]
    /\ UNCHANGED PickerRest

\* the picker after the parent stored time24: the effect runs if the prop
\* changed
Confirmed(time24) ==
    IF time24 = picker.selectedTime
    THEN [picker EXCEPT !.isVisible = FALSE,
                        !.confirmed = <<picker.hour, picker.minute, picker.isAM>>,
                        !.emitted = time24]
    ELSE [Loaded(time24, <<0, 0>>) EXCEPT
                        !.loaded = picker.loaded, !.touched = picker.touched,
                        !.confirmed = <<picker.hour, picker.minute, picker.isAM>>,
                        !.emitted = time24]

\* TimePicker.handleTimeSelect (Confirm): onTimeChange(time24), then
\* setIsVisible(false); the parent passes time24 back as selectedTime
handleTimeSelect ==
    /\ picker.isVisible
    /\ picker' = Confirmed(convertTo24Hour(picker.hour, picker.minute, picker.isAM))
    /\ UNCHANGED PickerRest

NextPicker ==
    \/ OpenPicker
    \/ SetHour \/ SetMinute \/ SetIsAM
    \/ ClosePicker \/ handleTimeSelect

SpecPicker == InitPicker /\ [][NextPicker]_vars

\* C30: every time a Confirm emits is "HH:MM" with HH in 00..23 and MM in
\* 00..59; 12 AM is emitted as hour 00 and 12 PM as hour 12; and a Confirm
\* with nothing changed since "HH:MM" was loaded as selectedTime emits that
\* same "HH:MM"
C30_PickerRoundTrips ==
    picker.emitted # <<>> =>
        /\ picker.emitted \in DayTimes
        /\ (picker.confirmed[1] = Num(12) /\ picker.confirmed[3])
              => SubSeq(picker.emitted, 1, 2) = <<"0", "0">>
        /\ (picker.confirmed[1] = Num(12) /\ ~picker.confirmed[3])
              => SubSeq(picker.emitted, 1, 2) = <<"1", "2">>
        /\ (~picker.touched /\ picker.loaded # <<>>)
              => picker.emitted = picker.loaded

\* C30's case: "00:05" was loaded, shown as 12:05 AM, and confirmed with
\* nothing changed
C30_Witness ==
    /\ picker.emitted = formattedTime(0, 5)
    /\ picker.loaded = formattedTime(0, 5)
    /\ ~picker.touched
    /\ picker.confirmed = <<Num(12), Num(5), TRUE>>

-----------------------------------------------------------------------------
(* SpecSession: the HomeScreen with the GoalStorage calls its handlers and *)
(* the two forms start, each split at its awaits.  AsyncStorage serves the *)
(* getItem and setItem requests one at a time in the order they were       *)
(* issued: calls.queue holds the requests not yet served, each with the    *)
(* call it belongs to.  A GoalStorage call issues its getItem when it is   *)
(* started and its setItem when the getItem has returned.  The handler     *)
(* that awaits the call goes on as soon as the call returns.               *)
(*                                                                         *)
(* calls.born pairs the id and createdAt of every goal created, removed    *)
(* holds the ids the HomeScreen dropped after a deleteGoal that returned   *)
(* true, last is the call that returned last.                              *)

\* GoalStorage and HomeScreen.loadGoals calls started in a session
MaxCalls == 3

\* the goals stored before the session
SessionSeeds ==
    <<SeedGoal, [SeedGoal EXCEPT !.id = <<"g", "1">>, !.title = <<"x", "y", "z">>]>>

\* what the edit form submits
SessionPatch ==
    [title |-> <<"n", "e", "w">>, description |-> Undefined,
     deadlineDate |-> formattedDate(2024, 3, 1), deadlineTime |-> formattedTime(0, 0)]

\* what the create form submits at the instant 1000
SessionGoal(id) ==
    [id |-> id, title |-> <<"a", "b", "c">>, description |-> Undefined,
     deadlineDate |-> formattedDate(2024, 2, 29),
     deadlineTime |-> formattedTime(12, 30), createdAt |-> toISOString(1000)]

BornOf(goals) == {<<goals[i].id, goals[i].createdAt>> : i \in 1..Len(goals)}

\* the HomeScreen is open and has loaded the stored list
InitSession ==
    /\ store = JSONstringify(SessionSeeds)
    /\ last = NoCall
    /\ nav = "Home"
    /\ homeGoals = Persisted(store)
    /\ form = FormClosed
    /\ pending = {}
    /\ sub = NoSubmission
    /\ view = NoView
    /\ calls = [NoCalls EXCEPT !.born = BornOf(SessionSeeds)]
    /\ prog = NoProgress
    /\ picker = NoPicker
    /\ TimeIdle
    /\ CountdownIdle
    /\ ScreenIdle

SessionRest ==
    <<timeVars, last, countdownVars, screenVars, nav, form, pending, sub, view,
      prog, picker>>

\* a call that was started: its getItem is issued.  base is the list's goal
\* the edit form was opened with; saw collects the ids whose deleteGoal
\* returned true while this call was in flight
Request(op, id, goal, base) ==
    [op |-> op, id |-> id, goal |-> goal, base |-> base, step |-> "getItem",
     snapshot |-> MissingKey, getFails |-> FALSE, saw |-> {}]

Issue(request) ==
    /\ calls.started < MaxCalls
    /\ calls' = [calls EXCEPT
                   !.queue = Append(@, request), !.started = @ + 1,
                   !.born = IF request.op = "saveGoal"
                            THEN @ \cup {<<request.goal.id, request.goal.createdAt>>}
                            ELSE @]

\* HomeScreen.loadGoals up to its await: on focus and on pull-to-refresh
SessionLoadGoals ==
    /\ Issue(Request("loadGoals", Undefined, NoGoal, NoGoal))
    /\ UNCHANGED <<store, homeGoals, SessionRest>>

\* HomeScreen.handleDeleteGoal up to its await, Delete confirmed for a goal
\* of the list
SessionDeleteGoal ==
    \E i \in 1..Len(homeGoals) :
        /\ Issue(Request("deleteGoal", Get(homeGoals[i], "id"), NoGoal, NoGoal))
        /\ UNCHANGED <<store, homeGoals, SessionRest>>

\* CreateGoalScreen.handleCreateGoal up to its await, the form valid
SessionCreateGoal ==
    /\ Issue(Request("saveGoal", generateId({b[1] : b \in calls.born}),
                     SessionGoal(generateId({b[1] : b \in calls.born})), NoGoal))
    /\ UNCHANGED <<store, homeGoals, SessionRest>>

\* EditGoalScreen.handleUpdateGoal up to its await, the form opened for a
\* goal of the list and valid
SessionUpdateGoal ==
    \E i \in 1..Len(homeGoals) :
        /\ Issue(Request("updateGoal", Get(homeGoals[i], "id"), SessionPatch,
                         homeGoals[i]))
        /\ UNCHANGED <<store, homeGoals, SessionRest>>

\* the GoalStorage operation of call c on the store st
Apply(c, st, getFails, setFails) ==
    IF c.op = "saveGoal" THEN saveGoal(st, c.goal, getFails, setFails)
    ELSE IF c.op = "updateGoal" THEN updateGoal(st, c.id, c.goal, getFails, setFails)
    ELSE deleteGoal(st, c.id, getFails, setFails)

\* the alert the awaiting handler shows: the create and edit screens report
\* success or failure, handleDeleteGoal only failure, loadGoals only an
\* error that was thrown
AlertFor(c, o) ==
    IF c.op = "loadGoals" THEN (IF o.threw THEN "error" ELSE "none")
    ELSE IF ~o.ret THEN "error"
    ELSE IF c.op = "deleteGoal" THEN "none" ELSE "success"

\* the list after the handler that awaited c went on: loadGoals sets what
\* was read, handleDeleteGoal filters its goal out, the edit screen's
\* onGoalUpdated (the success alert's OK) replaces the goal it edited
ListAfter(c, o) ==
    IF c.op = "loadGoals" THEN (IF o.threw THEN homeGoals ELSE o.list)
    ELSE IF c.op = "deleteGoal" /\ o.ret THEN filterOut(homeGoals, c.id)
    ELSE IF c.op = "updateGoal" /\ o.ret
    THEN [i \in 1..Len(homeGoals) |->
            IF Get(homeGoals[i], "id") = c.id
            THEN Spread(c.base, c.goal) ELSE homeGoals[i]]
    ELSE homeGoals

\* the requests still queued, told of a deleteGoal that returned true
Told(queue, c, o) ==
    [i \in 1..Len(queue) |->
        IF c.op = "deleteGoal" /\ o.ret
        THEN [queue[i] EXCEPT !.saw = @ \cup {c.id}] ELSE queue[i]]

\* call c returns o to its handler
Returns(c, o) ==
    /\ homeGoals' = ListAfter(c, o)
    /\ calls' = [calls EXCEPT
                   !.queue = Told(Tail(calls.queue), c, o),
                   !.removed = IF c.op = "deleteGoal" /\ o.ret
                               THEN @ \cup {c.id} ELSE @,
                   !.last = [op |-> c.op, id |-> c.id, failed |-> o.failed,
                             ret |-> o.ret, alert |-> AlertFor(c, o),
                             overlapped |-> c.saw \ {c.id}]]

\* the call goes on to its setItem, issued behind the requests queued
Writes(c, getFails) ==
    /\ calls' = [calls EXCEPT
                   !.queue = Append(Tail(calls.queue),
                                    [c EXCEPT !.step = "setItem", !.snapshot = store,
                                              !.getFails = getFails])]
    /\ UNCHANGED homeGoals

\* the getItem at the head of the queue is served.  getAllGoals returns to
\* loadGoals; the other calls go on to setItem unless they return without
\* writing
GetItemServed ==
    \E getFails \in BOOLEAN :
        /\ calls.queue # <<>>
        /\ Head(calls.queue).step = "getItem"
        /\ IF Head(calls.queue).op = "loadGoals"
           THEN Returns(Head(calls.queue), getAllGoals(store, getFails))
           ELSE IF Apply(Head(calls.queue), store, getFails, FALSE).ret
           THEN Writes(Head(calls.queue), getFails)
           ELSE Returns(Head(calls.queue),
                        Apply(Head(calls.queue), store, getFails, FALSE))
        /\ UNCHANGED <<store, SessionRest>>

\* the store after call c's setItem was served
Written(c, setFails) ==
    IF setFails THEN store
    ELSE Apply(c, c.snapshot, c.getFails, FALSE).store

\* the setItem at the head of the queue is served: it writes what the call
\* computed from the list its getItem returned
SetItemServed ==
    \E setFails \in BOOLEAN :
        /\ calls.queue # <<>>
        /\ Head(calls.queue).step = "setItem"
        /\ store' = Written(Head(calls.queue), setFails)
        /\ Returns(Head(calls.queue),
                   [Apply(Head(calls.queue), Head(calls.queue).snapshot,
                          Head(calls.queue).getFails, setFails)
                      EXCEPT !.store = Written(Head(calls.queue), setFails)])
        /\ UNCHANGED SessionRest

NextSession ==
    \/ SessionLoadGoals \/ SessionDeleteGoal
    \/ SessionCreateGoal \/ SessionUpdateGoal
    \/ GetItemServed \/ SetItemServed

SpecSession == InitSession /\ [][NextSession]_vars

\* C21: a call started from a screen during which an AsyncStorage request
\* failed returns to an error alert (the claim as stated; getAllGoals
\* catches the failure of getItem, so loadGoals shows the empty list it got
\* and the writes go on from an empty list)
C21_FailureIsAlerted ==
    calls.last.failed # {} => calls.last.alert = "error"

\* C23: every stored goal has the id and the createdAt it was created with
C23_IdAndCreatedAtKept ==
    \A i \in 1..Len(Persisted(store)) :
        <<Get(Persisted(store)[i], "id"), Get(Persisted(store)[i], "createdAt")>>
            \in calls.born

\* C23's case: a goal created in the session, loaded into the list and
\* edited is stored with the edited title
C23_Witness ==
    /\ calls.last.op = "updateGoal"
    /\ calls.last.ret
    /\ calls.last.id = <<"g", "2">>
    /\ \E i \in 1..Len(Persisted(store)) :
          /\ Get(Persisted(store)[i], "id") = <<"g", "2">>
          /\ Get(Persisted(store)[i], "title") = SessionPatch.title

\* C25: when a deleteGoal returns true and the deleteGoal of another id
\* returned true while it was in flight, neither id is stored (the claim as
\* stated; each call writes the list it read, without the other's removal)
C25_NoLostDelete ==
    (calls.last.op = "deleteGoal" /\ calls.last.ret)
        => \A b \in calls.last.overlapped :
              /\ b \notin IdsOf(Persisted(store))
              /\ calls.last.id \notin IdsOf(Persisted(store))

\* C26: a goal the HomeScreen removed from its list after a deleteGoal that
\* returned true is not in the list again (the claim as stated; a call that
\* read the stored list before the delete wrote puts the goal back, and the
\* next loadGoals shows it)
C26_RemovedStaysRemoved ==
    \A id \in calls.removed : id \notin IdsOf(homeGoals)

====
